---- MODULE Spec2Model ----
(***************************************************************************)
(* A model of json2xml-go: the recursive value-to-XML transcoder of        *)
(* dicttoxml.go (both dialects), the Json2xml converter object and the     *)
(* library entry points.  Text is modelled as it is in the program: a      *)
(* string is a sequence of one-character strings, and every conversion     *)
(* (escaping, CDATA, %v formatting, sorting, the XML decoder that          *)
(* KeyIsValidXML and PrettyPrint run) is computed character by character.  *)
(***************************************************************************)
EXTENDS Integers, Sequences, FiniteSets, TLC

(***************************************************************************)
(* Characters and string literals of the program.                          *)
(***************************************************************************)
\* The printable ASCII characters in code order, 0x20 .. 0x7E (sort.Strings
\* compares bytes); the entry at 0x60 stands for the backtick.
AsciiTable ==
  <<" ", "!", "\"", "#", "$", "%", "&", "'", "(", ")", "*", "+", ",", "-", ".", "/", "0", "1", "2", "3", "4", "5", "6", "7", "8", "9", ":", ";", "<", "=", ">", "?", "@", "A", "B", "C", "D", "E", "F", "G", "H", "I", "J", "K", "L", "M", "N", "O", "P", "Q", "R", "S", "T", "U", "V", "W", "X", "Y", "Z", "[", "\\", "]", "^", "_", "backtick", "a", "b", "c", "d", "e", "f", "g", "h", "i", "j", "k", "l", "m", "n", "o", "p", "q", "r", "s", "t", "u", "v", "w", "x", "y", "z", "{", "|", "}", "~">>
LowerLetters ==
  <<"a", "b", "c", "d", "e", "f", "g", "h", "i", "j", "k", "l", "m", "n", "o", "p", "q", "r", "s", "t", "u", "v", "w", "x", "y", "z">>
UpperLetters ==
  <<"A", "B", "C", "D", "E", "F", "G", "H", "I", "J", "K", "L", "M", "N", "O", "P", "Q", "R", "S", "T", "U", "V", "W", "X", "Y", "Z">>
Letters == {LowerLetters[i] : i \in 1..Len(LowerLetters)} \cup {UpperLetters[i] : i \in 1..Len(UpperLetters)}
Digits == {"0", "1", "2", "3", "4", "5", "6", "7", "8", "9"}
DigitSeq == <<"0", "1", "2", "3", "4", "5", "6", "7", "8", "9">>
CharCode == [c \in {AsciiTable[i] : i \in 1..Len(AsciiTable)} |-> 31 + (CHOOSE i \in 1..Len(AsciiTable) : AsciiTable[i] = c)]

\* <?xml version="1.0" encoding="UTF-8" ?>
Prolog == <<"<", "?", "x", "m", "l", " ", "v", "e", "r", "s", "i", "o", "n", "=", "\"", "1", ".", "0", "\"", " ", "e", "n", "c", "o", "d", "i", "n", "g", "=", "\"", "U", "T", "F", "-", "8", "\"", " ", "?", ">">>
\* http://www.w3.org/2005/xpath-functions
XPathFunctionsNS == <<"h", "t", "t", "p", ":", "/", "/", "w", "w", "w", ".", "w", "3", ".", "o", "r", "g", "/", "2", "0", "0", "5", "/", "x", "p", "a", "t", "h", "-", "f", "u", "n", "c", "t", "i", "o", "n", "s">>
\* item
S_item == <<"i", "t", "e", "m">>
\* root
S_root == <<"r", "o", "o", "t">>
\* key
S_key == <<"k", "e", "y">>
\* name
S_name == <<"n", "a", "m", "e">>
\* type
S_type == <<"t", "y", "p", "e">>
\* id
S_id == <<"i", "d">>
\* foo
S_foo == <<"f", "o", "o">>
\* n
S_n == <<"n">>
\* null
S_null == <<"n", "u", "l", "l">>
\* bool
S_bool == <<"b", "o", "o", "l">>
\* int
S_int == <<"i", "n", "t">>
\* float
S_float == <<"f", "l", "o", "a", "t">>
\* str
S_str == <<"s", "t", "r">>
\* dict
S_dict == <<"d", "i", "c", "t">>
\* list
S_list == <<"l", "i", "s", "t">>
\* true
S_true == <<"t", "r", "u", "e">>
\* false
S_false == <<"f", "a", "l", "s", "e">>
\* <nil>
S_nil == <<"<", "n", "i", "l", ">">>
\* map[
S_mapOpen == <<"m", "a", "p", "[">>
\* @attrs
S_atAttrs == <<"@", "a", "t", "t", "r", "s">>
\* @val
S_atVal == <<"@", "v", "a", "l">>
\* @flat
S_atFlat == <<"@", "f", "l", "a", "t">>
\* &amp;
S_amp == <<"&", "a", "m", "p", ";">>
\* &quot;
S_quot == <<"&", "q", "u", "o", "t", ";">>
\* &apos;
S_apos == <<"&", "a", "p", "o", "s", ";">>
\* &lt;
S_lt == <<"&", "l", "t", ";">>
\* &gt;
S_gt == <<"&", "g", "t", ";">>
\* <![CDATA[
S_cdataOpen == <<"<", "!", "[", "C", "D", "A", "T", "A", "[">>
\* ]]>
S_cdataClose == <<"]", "]", ">">>
\* ]]]]><![CDATA[>
S_cdataSplit == <<"]", "]", "]", "]", ">", "<", "!", "[", "C", "D", "A", "T", "A", "[", ">">>
\* <!--
S_commentOpen == <<"<", "!", "-", "-">>
\* ?>
S_piClose == <<"?", ">">>
\* xml
S_xml == <<"x", "m", "l">>
\* version=
S_version == <<"v", "e", "r", "s", "i", "o", "n", "=">>
\* encoding=
S_encoding == <<"e", "n", "c", "o", "d", "i", "n", "g", "=">>
\* 1.0
S_v10 == <<"1", ".", "0">>
\* utf-8
S_utf8lower == <<"u", "t", "f", "-", "8">>
\* xmlns
S_xmlns == <<"x", "m", "l", "n", "s">>
\* xsi
S_xsi == <<"x", "s", "i">>
\* schemaInstance
S_schemaInstance == <<"s", "c", "h", "e", "m", "a", "I", "n", "s", "t", "a", "n", "c", "e">>
\* schemaLocation
S_schemaLocation == <<"s", "c", "h", "e", "m", "a", "L", "o", "c", "a", "t", "i", "o", "n">>
\* map
S_map == <<"m", "a", "p">>
\* array
S_array == <<"a", "r", "r", "a", "y">>
\* boolean
S_boolean == <<"b", "o", "o", "l", "e", "a", "n">>
\* number
S_number == <<"n", "u", "m", "b", "e", "r">>
\* string
S_string == <<"s", "t", "r", "i", "n", "g">>
\* <map
S_openMap == <<"<", "m", "a", "p">>
\* <array
S_openArray == <<"<", "a", "r", "r", "a", "y">>
\* all
S_all == <<"a", "l", "l">>

(***************************************************************************)
(* The strings and sort packages, as far as the program uses them.         *)
(***************************************************************************)
HasPrefix(s, p) == Len(s) >= Len(p) /\ SubSeq(s, 1, Len(p)) = p
HasSuffix(s, p) == Len(s) >= Len(p) /\ SubSeq(s, Len(s) - Len(p) + 1, Len(s)) = p
TrimSuffix(s, p) == IF HasSuffix(s, p) THEN SubSeq(s, 1, Len(s) - Len(p)) ELSE s
HasAt(s, i, p) == i + Len(p) - 1 <= Len(s) /\ SubSeq(s, i, i + Len(p) - 1) = p

\* The first index >= i at which sub occurs in s, 0 when there is none.
RECURSIVE IndexFrom(_, _, _)
IndexFrom(s, sub, i) ==
  IF i + Len(sub) - 1 > Len(s) THEN 0
  ELSE IF SubSeq(s, i, i + Len(sub) - 1) = sub THEN i
  ELSE IndexFrom(s, sub, i + 1)

\* strings.ReplaceAll for a non-empty old: the non-overlapping occurrences,
\* taken left to right.
RECURSIVE ReplaceAll(_, _, _)
ReplaceAll(s, old, new) ==
  IF Len(s) < Len(old) THEN s
  ELSE IF SubSeq(s, 1, Len(old)) = old
       THEN new \o ReplaceAll(SubSeq(s, Len(old) + 1, Len(s)), old, new)
       ELSE <<s[1]>> \o ReplaceAll(Tail(s), old, new)

\* strings.Replace(s, old, new, 1)
ReplaceFirst(s, old, new) ==
  LET i == IndexFrom(s, old, 1)
  IN  IF i = 0 THEN s
      ELSE SubSeq(s, 1, i - 1) \o new \o SubSeq(s, i + Len(old), Len(s))

ToLowerChar(c) ==
  IF \E i \in 1..Len(UpperLetters) : UpperLetters[i] = c
  THEN LowerLetters[CHOOSE i \in 1..Len(UpperLetters) : UpperLetters[i] = c]
  ELSE c
ToLower(s) == [i \in 1..Len(s) |-> ToLowerChar(s[i])]

\* Byte-wise lexicographic order, the order of Go's < on strings.
RECURSIVE StrLess(_, _)
StrLess(a, b) ==
  IF a = <<>> THEN b # <<>>
  ELSE IF b = <<>> THEN FALSE
  ELSE IF a[1] = b[1] THEN StrLess(Tail(a), Tail(b))
  ELSE CharCode[a[1]] < CharCode[b[1]]

\* sort.Strings: the string at index p moves behind the strings that are
\* less than it, and behind the equal ones before it.
Rank(keys, p) ==
  Cardinality({j \in 1..Len(keys) : StrLess(keys[j], keys[p]) \/ (keys[j] = keys[p] /\ j < p)})
SortStrings(keys) ==
  [i \in 1..Len(keys) |-> keys[CHOOSE p \in 1..Len(keys) : Rank(keys, p) = i - 1]]

\* The decimal text of a natural number, as %d and %v print it.
RECURSIVE Itoa(_)
Itoa(n) == IF n < 10 THEN <<DigitSeq[n + 1]>> ELSE Itoa(n \div 10) \o <<DigitSeq[(n % 10) + 1]>>

RECURSIVE Flatten(_)
Flatten(parts) == IF parts = <<>> THEN <<>> ELSE parts[1] \o Flatten(Tail(parts))

(***************************************************************************)
(* EscapeXML and WrapCDATA.                                                *)
(***************************************************************************)
\* the five passes with the ampersand pass last
EscapeXMLAmpersandLast(s) ==
  LET s1 == ReplaceAll(s, <<"\"">>, S_quot)
      s2 == ReplaceAll(s1, <<"'">>, S_apos)
      s3 == ReplaceAll(s2, <<"<">>, S_lt)
      s4 == ReplaceAll(s3, <<">">>, S_gt)
  IN  ReplaceAll(s4, <<"&">>, S_amp)
\* Five ReplaceAll passes, the ampersand first.
EscapeXML(s) ==
  LET s1 == ReplaceAll(s, <<"&">>, S_amp)
      s2 == ReplaceAll(s1, <<"\"">>, S_quot)
      s3 == ReplaceAll(s2, <<"'">>, S_apos)
      s4 == ReplaceAll(s3, <<"<">>, S_lt)
  IN  ReplaceAll(s4, <<">">>, S_gt)

\* one section around s as it is
WrapCDATAWhole(s) == S_cdataOpen \o s \o S_cdataClose
\* The text with every ]]> split over two sections, in one section.
WrapCDATA(s) == S_cdataOpen \o ReplaceAll(s, S_cdataClose, S_cdataSplit) \o S_cdataClose

(***************************************************************************)
(* encoding/xml's Decoder in its default strict mode, as KeyIsValidXML and *)
(* PrettyPrint drive it: Token() is called until it returns an error, and  *)
(* the run is clean when that error is io.EOF.  XMLDecodes(s) is TRUE for  *)
(* exactly the texts whose run is clean.  Modelled for ASCII text;         *)
(* character references (&#..;) and the nesting inside <!DOCTYPE ..> are   *)
(* not.                                                                    *)
(***************************************************************************)
XMLSpaces == {" ", "\t", "\n", "\r"}
NameStart == Letters \cup {"_", ":"}
NameBytes == NameStart \cup Digits \cup {".", "-"}
XMLEntities == {<<"l", "t", ";">>, <<"g", "t", ";">>, <<"a", "m", "p", ";">>, <<"a", "p", "o", "s", ";">>, <<"q", "u", "o", "t", ";">>}

RECURSIVE skipSpace(_, _)
skipSpace(s, i) == IF i <= Len(s) /\ s[i] \in XMLSpaces THEN skipSpace(s, i + 1) ELSE i

RECURSIVE nameEnd(_, _)
nameEnd(s, i) == IF i <= Len(s) /\ s[i] \in NameBytes THEN nameEnd(s, i + 1) ELSE i

RECURSIVE indexOfChar(_, _, _)
indexOfChar(s, c, i) == IF i > Len(s) THEN 0 ELSE IF s[i] = c THEN i ELSE indexOfChar(s, c, i + 1)

\* Decoder.name: a non-empty run of name bytes whose first is a letter, _ or :
isName(n) == n # <<>> /\ n[1] \in NameStart
\* Decoder.nsname: a name with at most one colon
nsnameOK(n) == isName(n) /\ Cardinality({i \in 1..Len(n) : n[i] = ":"}) <= 1

\* Decoder.text over s[i..j-1]: every & starts one of the five entities and
\* ]]> does not occur; inside a quoted attribute value < is an error too.
textOK(s, i, j, quoted) ==
  \A k \in i..(j - 1) :
    /\ s[k] = "&" => \E e \in XMLEntities : HasAt(s, k + 1, e) /\ k + Len(e) <= j - 1
    /\ ~(k + 2 <= j - 1 /\ s[k] = "]" /\ s[k + 1] = "]" /\ s[k + 2] = ">")
    /\ quoted => s[k] # "<"

\* procInst(param, s): the quoted value that follows the first "param=" which
\* is followed by a quote; the empty string when there is none.
RECURSIVE procInstFrom(_, _, _)
procInstFrom(param, s, i) ==
  LET k == IndexFrom(s, param, i)
  IN  IF k = 0 \/ k + Len(param) > Len(s) THEN <<>>
      ELSE IF s[k + Len(param)] \in {"\"", "'"}
           THEN LET j == indexOfChar(s, s[k + Len(param)], k + Len(param) + 1)
                IN  IF j = 0 THEN <<>> ELSE SubSeq(s, k + Len(param) + 1, j - 1)
           ELSE procInstFrom(param, s, k + Len(param) + 1)
procInst(param, s) == procInstFrom(param, s, 1)

\* The <?xml ..?> declaration is refused for a version other than 1.0 and for
\* an encoding other than UTF-8 (no CharsetReader is installed).
xmlDeclOK(content) ==
  /\ procInst(S_version, content) \in {<<>>, S_v10}
  /\ ToLower(procInst(S_encoding, content)) \in {<<>>, S_utf8lower}

RECURSIVE decodeFrom(_, _, _)
RECURSIVE attrsFrom(_, _, _, _)

\* rawToken's start-tag loop after the element name n: attributes, then > or />
attrsFrom(s, p0, stk, n) ==
  LET p == skipSpace(s, p0)
  IN  IF p > Len(s) THEN FALSE
      ELSE IF s[p] = "/" THEN p + 1 <= Len(s) /\ s[p + 1] = ">" /\ decodeFrom(s, p + 2, stk)
      ELSE IF s[p] = ">" THEN decodeFrom(s, p + 1, Append(stk, n))
      ELSE LET e == nameEnd(s, p)
               q == skipSpace(s, e)
               v == skipSpace(s, q + 1)
           IN  /\ nsnameOK(SubSeq(s, p, e - 1))
               /\ q <= Len(s) /\ s[q] = "="
               /\ v <= Len(s) /\ s[v] \in {"\"", "'"}
               /\ LET c == indexOfChar(s, s[v], v + 1)
                  IN  c # 0 /\ textOK(s, v + 1, c, TRUE) /\ attrsFrom(s, c + 1, stk, n)

\* Token() from position i with the open elements stk; TRUE iff the end of the
\* text is reached without an error and with every element closed.
decodeFrom(s, i, stk) ==
  IF i > Len(s) THEN stk = <<>>
  ELSE IF s[i] # "<"
  THEN LET lt == indexOfChar(s, "<", i)
           j == IF lt = 0 THEN Len(s) + 1 ELSE lt
       IN  textOK(s, i, j, FALSE) /\ decodeFrom(s, j, stk)
  ELSE IF i = Len(s) THEN FALSE
  ELSE IF s[i + 1] = "/"
  THEN LET e == nameEnd(s, i + 2)
           n == SubSeq(s, i + 2, e - 1)
           p == skipSpace(s, e)
       IN  /\ nsnameOK(n)
           /\ p <= Len(s) /\ s[p] = ">"
           /\ stk # <<>> /\ stk[Len(stk)] = n
           /\ decodeFrom(s, p + 1, SubSeq(stk, 1, Len(stk) - 1))
  ELSE IF s[i + 1] = "?"
  THEN LET e == nameEnd(s, i + 2)
           target == SubSeq(s, i + 2, e - 1)
           p == skipSpace(s, e)
           c == IndexFrom(s, S_piClose, p)
       IN  /\ isName(target)
           /\ c # 0
           /\ target = S_xml => xmlDeclOK(SubSeq(s, p, c - 1))
           /\ decodeFrom(s, c + 2, stk)
  ELSE IF s[i + 1] = "!"
  THEN IF HasAt(s, i, S_commentOpen)
       THEN LET c == IndexFrom(s, <<"-", "-">>, i + 4)
            IN  c # 0 /\ c + 2 <= Len(s) /\ s[c + 2] = ">" /\ decodeFrom(s, c + 3, stk)
       ELSE IF HasAt(s, i, <<"<", "!", "[">>)
       THEN LET c == IndexFrom(s, S_cdataClose, i + Len(S_cdataOpen))
            IN  HasAt(s, i, S_cdataOpen) /\ c # 0 /\ decodeFrom(s, c + 3, stk)
       ELSE LET c == indexOfChar(s, ">", i + 2)
            IN  c # 0 /\ decodeFrom(s, c + 1, stk)
  ELSE LET e == nameEnd(s, i + 1)
           n == SubSeq(s, i + 1, e - 1)
       IN  nsnameOK(n) /\ attrsFrom(s, e, stk, n)

XMLDecodes(s) == decodeFrom(s, 1, <<>>)

(***************************************************************************)
(* Values.  A Go value of type any is a record of one shape; kind tells    *)
(* which of the other fields carry it.  A map[string]any holds its entries *)
(* as two parallel sequences, keys (distinct) and items, in the order a    *)
(* range over the map happens to visit them.  A nil value (also a nil map, *)
(* such as a nil attrs argument) is Null.                                  *)
(***************************************************************************)
Val(kind, b, n, s, keys, items) ==
  [kind |-> kind, b |-> b, n |-> n, s |-> s, keys |-> keys, items |-> items]
Null == Val("null", FALSE, 0, <<>>, <<>>, <<>>)
Bool(b) == Val("bool", b, 0, <<>>, <<>>, <<>>)
Number(n) == Val("int", FALSE, n, <<>>, <<>>, <<>>)
\* a float64, held as the text %v prints for it
Float(s) == Val("float", FALSE, 0, s, <<>>, <<>>)
Str(s) == Val("str", FALSE, 0, s, <<>>, <<>>)
\* a time.Time in UTC: items = <<year, month, day, hour, minute, second>>
Time(fields) == Val("time", FALSE, 0, <<>>, <<>>, fields)
Map(keys, items) == Val("map", FALSE, 0, <<>>, keys, items)
List(items) == Val("list", FALSE, 0, <<>>, <<>>, items)
EmptyMap == Map(<<>>, <<>>)

MapHas(m, k) == \E i \in 1..Len(m.keys) : m.keys[i] = k
MapIndex(m, k) == CHOOSE i \in 1..Len(m.keys) : m.keys[i] = k
MapGet(m, k) == m.items[MapIndex(m, k)]
\* m[k] = v
MapSet(m, k, v) ==
  IF MapHas(m, k)
  THEN [m EXCEPT !.items[MapIndex(m, k)] = v]
  ELSE [m EXCEPT !.keys = Append(@, k), !.items = Append(@, v)]
\* delete(m, k)
MapDelete(m, k) ==
  IF MapHas(m, k)
  THEN LET i == MapIndex(m, k)
       IN  [m EXCEPT !.keys = SubSeq(@, 1, i - 1) \o SubSeq(@, i + 1, Len(@)),
                     !.items = SubSeq(@, 1, i - 1) \o SubSeq(@, i + 1, Len(@))]
  ELSE m

Pad2(n) == IF n < 10 THEN <<"0">> \o Itoa(n) ELSE Itoa(n)
Pad4(n) == IF n < 10 THEN <<"0", "0", "0">> \o Itoa(n)
           ELSE IF n < 100 THEN <<"0", "0">> \o Itoa(n)
           ELSE IF n < 1000 THEN <<"0">> \o Itoa(n)
           ELSE Itoa(n)
TimeDate(t) == Pad4(t.items[1]) \o <<"-">> \o Pad2(t.items[2]) \o <<"-">> \o Pad2(t.items[3])
TimeClock(t) == Pad2(t.items[4]) \o <<":">> \o Pad2(t.items[5]) \o <<":">> \o Pad2(t.items[6])
\* t.Format(time.RFC3339) of a UTC time: 2023-02-15T12:30:45Z
FormatRFC3339(t) == TimeDate(t) \o <<"T">> \o TimeClock(t) \o <<"Z">>
\* t.String(), which %v prints: 2023-02-15 12:30:45 +0000 UTC
TimeString(t) == TimeDate(t) \o <<" ">> \o TimeClock(t) \o <<" ", "+", "0", "0", "0", "0", " ", "U", "T", "C">>

\* sortedKeys without its sort.Strings: the keys in range order
rangeKeys(m) == m.keys
\* sortedKeys(m)
sortedKeys(m) == SortStrings(m.keys)

RECURSIVE JoinWith(_, _)
JoinWith(parts, sep) ==
  IF parts = <<>> THEN <<>>
  ELSE IF Len(parts) = 1 THEN parts[1]
  ELSE parts[1] \o sep \o JoinWith(Tail(parts), sep)

\* fmt.Sprintf("%v", v); fmt prints a map with its keys sorted
RECURSIVE Sprintv(_)
Sprintv(v) ==
  CASE v.kind = "null" -> S_nil
    [] v.kind = "bool" -> IF v.b THEN S_true ELSE S_false
    [] v.kind = "int" -> Itoa(v.n)
    [] v.kind = "float" -> v.s
    [] v.kind = "str" -> v.s
    [] v.kind = "time" -> TimeString(v)
    [] v.kind = "map" ->
         LET ks == SortStrings(v.keys)
         IN  S_mapOpen \o JoinWith([i \in 1..Len(ks) |-> ks[i] \o <<":">> \o Sprintv(MapGet(v, ks[i]))], <<" ">>) \o <<"]">>
    [] v.kind = "list" ->
         <<"[">> \o JoinWith([i \in 1..Len(v.items) |-> Sprintv(v.items[i])], <<" ">>) \o <<"]">>

(***************************************************************************)
(* Identifiers, type names, attribute strings and XML names.               *)
(***************************************************************************)
\* rand.Intn(n) for n > 0, drawing the head of the stream rnd
Intn(n, rnd) == rnd[1] % n

\* a MakeID that draws from one number more
MakeIDOneMore(element, start, end, rnd) ==
  LET s == IF start = 0 THEN 100000 ELSE start
      e == IF end = 0 THEN 999999 ELSE end
  IN  IF e - s + 2 <= 0
      THEN [ok |-> FALSE, id |-> <<>>, n |-> 0, rnd |-> rnd]
      ELSE [ok |-> TRUE,
            id |-> element \o <<"_">> \o Itoa(Intn(e - s + 2, rnd) + s),
            n |-> Intn(e - s + 2, rnd) + s,
            rnd |-> Tail(rnd)]

\* MakeID, with the stream of random draws it reads; rand.Intn panics for
\* n <= 0, which is reported as ok = FALSE.
MakeID(element, start, end, rnd) ==
  LET s == IF start = 0 THEN 100000 ELSE start
      e == IF end = 0 THEN 999999 ELSE end
  IN  IF e - s + 1 <= 0
      THEN [ok |-> FALSE, id |-> <<>>, n |-> 0, rnd |-> rnd]
      ELSE [ok |-> TRUE,
            id |-> element \o <<"_">> \o Itoa(Intn(e - s + 1, rnd) + s),
            n |-> Intn(e - s + 1, rnd) + s,
            rnd |-> Tail(rnd)]

GetUniqueID(element, rnd) == MakeID(element, 100000, 999999, rnd)

GetXMLType(val) ==
  CASE val.kind = "null" -> S_null
    [] val.kind = "bool" -> S_bool
    [] val.kind = "int" -> S_int
    [] val.kind = "float" -> S_float
    [] val.kind = "str" -> S_str
    [] val.kind = "map" -> S_dict
    [] val.kind = "list" -> S_list
    [] val.kind = "time" -> S_str

IsPrimitiveType(val) == GetXMLType(val) \in {S_str, S_int, S_float, S_bool, S_null}

MakeAttrString(attrs) ==
  IF Len(attrs.keys) = 0 THEN <<>>
  ELSE LET keys == SortStrings(attrs.keys)
           parts == [i \in 1..Len(keys) |->
                       keys[i] \o <<"=", "\"">> \o EscapeXML(Sprintv(MapGet(attrs, keys[i]))) \o <<"\"">>]
       IN  <<" ">> \o JoinWith(parts, <<" ">>)

\* The decoder is run on the prolog, <key>foo</key>
KeyIsValidXML(key) ==
  IF key = <<>> THEN FALSE
  ELSE XMLDecodes(Prolog \o <<"<">> \o key \o <<">">> \o S_foo \o <<"<", "/">> \o key \o <<">">>)

isNumeric(s) == s # <<>> /\ \A i \in 1..Len(s) : s[i] \in Digits

\* a MakeValidXMLName that returns the escaped key where it can make no name
MakeValidXMLNameEscapedKey(key0, attrs) ==
  LET key == EscapeXML(key0)
      keyWithUnderscores == ReplaceAll(key, <<" ">>, <<"_">>)
      keyClean == ReplaceAll(ReplaceAll(key, <<":">>, <<>>), S_atFlat, <<>>)
  IN  IF KeyIsValidXML(key) THEN [name |-> key, attrs |-> attrs]
      ELSE IF isNumeric(key) THEN [name |-> S_n \o key, attrs |-> attrs]
      ELSE IF KeyIsValidXML(keyWithUnderscores) THEN [name |-> keyWithUnderscores, attrs |-> attrs]
      ELSE IF KeyIsValidXML(keyClean) THEN [name |-> key, attrs |-> attrs]
      ELSE [name |-> key,
            attrs |-> MapSet(IF attrs = Null THEN EmptyMap ELSE attrs, S_name, Str(key))]

\* MakeValidXMLName returns the name and the attribute map, which it
\* creates when it is nil and sets name in.
MakeValidXMLName(key0, attrs) ==
  LET key == EscapeXML(key0)
      keyWithUnderscores == ReplaceAll(key, <<" ">>, <<"_">>)
      keyClean == ReplaceAll(ReplaceAll(key, <<":">>, <<>>), S_atFlat, <<>>)
  IN  IF KeyIsValidXML(key) THEN [name |-> key, attrs |-> attrs]
      ELSE IF isNumeric(key) THEN [name |-> S_n \o key, attrs |-> attrs]
      ELSE IF KeyIsValidXML(keyWithUnderscores) THEN [name |-> keyWithUnderscores, attrs |-> attrs]
      ELSE IF KeyIsValidXML(keyClean) THEN [name |-> key, attrs |-> attrs]
      ELSE [name |-> S_key,
            attrs |-> MapSet(IF attrs = Null THEN EmptyMap ELSE attrs, S_name, Str(key))]

(***************************************************************************)
(* Options and item functions.  An ItemFunc is nil, a function that returns *)
(* a fixed name (DefaultItemFunc returns item), or one that returns the     *)
(* parent followed by a fixed suffix.                                       *)
(***************************************************************************)
NilItemFunc == [kind |-> "nil", s |-> <<>>]
DefaultItemFunc == [kind |-> "const", s |-> S_item]
ConstItemFunc(s) == [kind |-> "const", s |-> s]
SuffixItemFunc(s) == [kind |-> "suffix", s |-> s]
\* opts.ItemFunc(parent)
ItemFuncApply(f, parent) == IF f.kind = "const" THEN f.s ELSE parent \o f.s

DefaultOptions ==
  [Root |-> TRUE, CustomRoot |-> S_root, IDs |-> FALSE, AttrType |-> TRUE,
   ItemWrap |-> TRUE, ItemFunc |-> DefaultItemFunc, CDATA |-> FALSE,
   XMLNamespaces |-> Null, ListHeaders |-> FALSE, XPathFormat |-> FALSE]

(***************************************************************************)
(* The XPath 3.1 dialect.                                                  *)
(***************************************************************************)
GetXPath31TagName(val) ==
  CASE val.kind = "null" -> S_null
    [] val.kind = "bool" -> S_boolean
    [] val.kind = "map" -> S_map
    [] val.kind \in {"int", "float"} -> S_number
    [] val.kind = "str" -> S_string
    [] val.kind = "list" -> S_array
    [] val.kind = "time" -> S_string

\* <tag keyAttr>content</tag>
Element(tag, attrString, content) ==
  <<"<">> \o tag \o attrString \o <<">">> \o content \o <<"<", "/">> \o tag \o <<">">>

RECURSIVE ConvertToXPath31(_, _)
convertXPathMap(obj, keyAttr) ==
  LET keys == sortedKeys(obj)
  IN  Element(S_map, keyAttr, Flatten([i \in 1..Len(keys) |-> ConvertToXPath31(MapGet(obj, keys[i]), keys[i])]))

convertXPathArray(obj, keyAttr) ==
  Element(S_array, keyAttr, Flatten([i \in 1..Len(obj.items) |-> ConvertToXPath31(obj.items[i], <<>>)]))

ConvertToXPath31(obj, parentKey) ==
  LET keyAttr == IF parentKey # <<>>
                 THEN <<" ", "k", "e", "y", "=", "\"">> \o EscapeXML(parentKey) \o <<"\"">>
                 ELSE <<>>
      tagName == GetXPath31TagName(obj)
  IN  CASE tagName = S_null -> <<"<">> \o S_null \o keyAttr \o <<"/", ">">>
        [] tagName = S_boolean -> Element(S_boolean, keyAttr, ToLower(Sprintv(obj)))
        [] tagName = S_number -> Element(S_number, keyAttr, Sprintv(obj))
        [] tagName = S_string -> Element(S_string, keyAttr, EscapeXML(Sprintv(obj)))
        [] tagName = S_map -> convertXPathMap(obj, keyAttr)
        [] tagName = S_array -> convertXPathArray(obj, keyAttr)

(***************************************************************************)
(* The default dialect.  A conversion function returns a record: out, the  *)
(* text; obj, its argument as the call leaves it (extractSpecialAttrs      *)
(* deletes from the map it is handed, which is the caller's); rnd, what    *)
(* is left of the stream of random draws.                                  *)
(***************************************************************************)
Res(out, obj, rnd) == [out |-> out, obj |-> obj, rnd |-> rnd]

normalizeValue(val) == IF val.kind = "time" THEN Str(FormatRFC3339(val)) ELSE val

\* The element the three leaf converters return: nm is what
\* MakeValidXMLName returned, val the value whose type is reported
LeafElement(nm, val, attrType, content) ==
  Element(nm.name,
          MakeAttrString(IF attrType THEN MapSet(nm.attrs, S_type, Str(GetXMLType(val))) ELSE nm.attrs),
          content)
\* attrs, or a new map when attrs is nil
OrNewMap(attrs) == IF attrs = Null THEN EmptyMap ELSE attrs
\* val, or its RFC 3339 text when it is a time.Time
TimeAsText(val) == IF val.kind = "time" THEN Str(FormatRFC3339(val)) ELSE val

ConvertKV(key, val, attrType, attrs, cdata) ==
  LeafElement(MakeValidXMLName(key, OrNewMap(attrs)), TimeAsText(val), attrType,
              IF cdata THEN WrapCDATA(Sprintv(TimeAsText(val))) ELSE EscapeXML(Sprintv(TimeAsText(val))))

ConvertBool(key, val, attrType, attrs, cdata) ==
  LeafElement(MakeValidXMLName(key, OrNewMap(attrs)), val, attrType, ToLower(Sprintv(val)))

ConvertNone(key, attrType, attrs, cdata) ==
  LeafElement(MakeValidXMLName(key, OrNewMap(attrs)), Null, attrType, <<>>)

\* an extractSpecialAttrs that keeps the attributes computed for the element
extractSpecialAttrsKeepsDefault(item0, defaultAttrs) ==
  LET custom == MapHas(item0, S_atAttrs) /\ MapGet(item0, S_atAttrs).kind = "map"
      item1 == IF custom THEN MapDelete(item0, S_atAttrs) ELSE item0
      hasVal == MapHas(item1, S_atVal)
      item2 == MapDelete(item1, S_atVal)
      flat == MapHas(item2, S_atFlat) /\ MapGet(item2, S_atFlat) = Bool(TRUE)
      item3 == MapDelete(item2, S_atFlat)
  IN  [attrs |-> defaultAttrs,
       hasVal |-> hasVal,
       rawItem |-> IF hasVal THEN MapGet(item1, S_atVal) ELSE item3,
       flat |-> flat,
       item |-> item3]

\* extractSpecialAttrs: item is the map after the three deletes
extractSpecialAttrs(item0, defaultAttrs) ==
  LET custom == MapHas(item0, S_atAttrs) /\ MapGet(item0, S_atAttrs).kind = "map"
      item1 == IF custom THEN MapDelete(item0, S_atAttrs) ELSE item0
      hasVal == MapHas(item1, S_atVal)
      item2 == MapDelete(item1, S_atVal)
      flat == MapHas(item2, S_atFlat) /\ MapGet(item2, S_atFlat) = Bool(TRUE)
      item3 == MapDelete(item2, S_atFlat)
  IN  [attrs |-> IF custom THEN MapGet(item0, S_atAttrs) ELSE defaultAttrs,
       hasVal |-> hasVal,
       rawItem |-> IF hasVal THEN MapGet(item1, S_atVal) ELSE item3,
       flat |-> flat,
       item |-> item3]

\* a formatDictOutput that tests @flat before the list headers
formatDictOutputFlatFirst(valAttrs, subtree, itemName, parent, parentIsList, flat, opts) ==
  IF flat \/ (parentIsList /\ ~opts.ItemWrap /\ ~opts.ListHeaders) THEN subtree
  ELSE IF parentIsList /\ opts.ListHeaders
  THEN IF Len(valAttrs.keys) > 0 /\ ~opts.ItemWrap
       THEN Element(parent, MakeAttrString(valAttrs), subtree)
       ELSE Element(parent, <<>>, subtree)
  ELSE Element(itemName, MakeAttrString(valAttrs), subtree)

formatDictOutput(valAttrs, subtree, itemName, parent, parentIsList, flat, opts) ==
  IF parentIsList /\ opts.ListHeaders
  THEN IF Len(valAttrs.keys) > 0 /\ ~opts.ItemWrap
       THEN Element(parent, MakeAttrString(valAttrs), subtree)
       ELSE Element(parent, <<>>, subtree)
  ELSE IF flat \/ (parentIsList /\ ~opts.ItemWrap) THEN subtree
  ELSE Element(itemName, MakeAttrString(valAttrs), subtree)

RECURSIVE Convert(_, _, _, _)
RECURSIVE ConvertDict(_, _, _, _)
RECURSIVE ConvertList(_, _, _, _)
RECURSIVE convertDictEntries(_, _, _, _, _, _)
RECURSIVE convertListItems(_, _, _, _, _, _, _)

buildSubtree(rawItem, opts, itemName, rnd) ==
  IF IsPrimitiveType(rawItem)
  THEN Res(EscapeXML(Sprintv(rawItem)), rawItem, rnd)
  ELSE Convert(rawItem, opts, itemName, rnd)

\* Dict2XMLStr from its call of formatDictOutput on: x is what
\* extractSpecialAttrs returned, sub the subtree built.  The map handed in
\* is left as the deletes left it, with the subtree's own deletes when the
\* subtree was built from the map itself.
Dict2XMLStrOutput(x, sub, opts, itemName, parentIsList, parent) ==
  Res(formatDictOutput(x.attrs, sub.out, itemName, parent, parentIsList, x.flat, opts),
      IF x.hasVal THEN x.item ELSE sub.obj,
      sub.rnd)
\* Dict2XMLStr from its call of buildSubtree on
Dict2XMLStrSubtree(x, opts, itemName, parentIsList, parent, rnd) ==
  Dict2XMLStrOutput(x, buildSubtree(x.rawItem, opts, itemName, rnd), opts, itemName, parentIsList, parent)

\* attrs["type"] = .. on a nil map: the assignment panics
NilMapAssignment(opts, attrs) == opts.AttrType /\ attrs = Null

Dict2XMLStr(opts, attrs, item, itemName, parentIsList, parent, rnd) ==
  Dict2XMLStrSubtree(
    extractSpecialAttrs(item, IF opts.AttrType THEN MapSet(attrs, S_type, Str(GetXMLType(item))) ELSE attrs),
    opts, itemName, parentIsList, parent, rnd)

\* a List2XMLStr that leaves an empty sequence bare when itemWrap is off
List2XMLStrOutputEmptyBare(opts, attrs, items, itemName, flat, subtree) ==
  IF \/ flat
     \/ ((Len(items.items) = 0 \/ IsPrimitiveType(items.items[1])) /\ ~opts.ItemWrap)
     \/ opts.ListHeaders
  THEN subtree
  ELSE Res(Element(itemName, MakeAttrString(attrs), subtree.out), subtree.obj, subtree.rnd)

\* List2XMLStr from its test of flat on: subtree is what ConvertList returned
List2XMLStrOutput(opts, attrs, items, itemName, flat, subtree) ==
  IF \/ flat
     \/ (Len(items.items) > 0 /\ IsPrimitiveType(items.items[1]) /\ ~opts.ItemWrap)
     \/ opts.ListHeaders
  THEN subtree
  ELSE Res(Element(itemName, MakeAttrString(attrs), subtree.out), subtree.obj, subtree.rnd)

List2XMLStr(opts, attrs, items, itemName, rnd) ==
  List2XMLStrOutput(opts,
                    IF opts.AttrType THEN MapSet(attrs, S_type, Str(GetXMLType(items))) ELSE attrs,
                    items, TrimSuffix(itemName, S_atFlat), HasSuffix(itemName, S_atFlat),
                    ConvertList(items, opts, TrimSuffix(itemName, S_atFlat), rnd))

convertDictValue(key, val, attrs, opts, parent, rnd) ==
  LET v == normalizeValue(val)
  IN  CASE v.kind = "null" -> Res(ConvertNone(key, opts.AttrType, attrs, opts.CDATA), val, rnd)
        [] v.kind = "bool" -> Res(ConvertBool(key, v, opts.AttrType, attrs, opts.CDATA), val, rnd)
        [] v.kind = "map" -> Dict2XMLStr(opts, attrs, v, key, FALSE, parent, rnd)
        [] v.kind = "list" -> List2XMLStr(opts, attrs, v, key, rnd)
        [] OTHER -> Res(ConvertKV(key, v, opts.AttrType, attrs, opts.CDATA), val, rnd)

convertListItem(item, itemName, parent, opts, rnd) ==
  LET attrs == EmptyMap
      v == normalizeValue(item)
  IN  CASE v.kind = "null" -> Res(ConvertNone(itemName, opts.AttrType, attrs, opts.CDATA), item, rnd)
        [] v.kind = "bool" -> Res(ConvertBool(itemName, v, opts.AttrType, attrs, opts.CDATA), item, rnd)
        [] v.kind = "map" -> Dict2XMLStr(opts, attrs, v, itemName, TRUE, parent, rnd)
        [] v.kind = "list" -> List2XMLStr(opts, attrs, v, itemName, rnd)
        [] OTHER -> Res(ConvertKV(IF opts.ItemWrap THEN itemName ELSE parent, v, opts.AttrType, attrs, opts.CDATA),
                        item, rnd)

\* The loop of ConvertDict from the i-th sorted key on; acc is the output
\* written so far, obj the map with the values converted so far as their
\* conversion left them.
\* output.WriteString(r.out), with the value of key as its conversion left it
WriteEntry(acc, key, r) == Res(acc.out \o r.out, MapSet(acc.obj, key, r.obj), r.rnd)
\* the body of ConvertDict's loop from its call of convertDictValue on: nm
\* is what MakeValidXMLName returned
convertDictEntry(nm, val, opts, parent, rnd) == convertDictValue(nm.name, val, nm.attrs, opts, parent, rnd)
\* attrs as the loop body sets it up: empty, or holding the id drawn
EntryAttrs(opts, id) == IF opts.IDs THEN MapSet(EmptyMap, S_id, Str(id.id)) ELSE EmptyMap

convertDictEntries(obj, keys, i, opts, parent, acc) ==
  IF i > Len(keys) THEN acc
  ELSE convertDictEntries(obj, keys, i + 1, opts, parent,
         WriteEntry(acc, keys[i],
           convertDictEntry(MakeValidXMLName(keys[i], EntryAttrs(opts, GetUniqueID(parent, acc.rnd))),
                            MapGet(obj, keys[i]), opts, parent,
                            IF opts.IDs THEN GetUniqueID(parent, acc.rnd).rnd ELSE acc.rnd)))

ConvertDict(obj, opts, parent, rnd) ==
  convertDictEntries(obj, sortedKeys(obj), 1, opts, parent, Res(<<>>, obj, rnd))

\* The loop of ConvertList from the i-th item on.
\* output.WriteString(r.out), with the i-th item as its conversion left it
WriteItem(acc, i, r) == Res(acc.out \o r.out, [acc.obj EXCEPT !.items[i] = r.obj], r.rnd)

convertListItems(items, i, itemName, parent, opts, acc, n) ==
  IF i > n THEN acc
  ELSE convertListItems(items, i + 1, itemName, parent, opts,
         WriteItem(acc, i, convertListItem(items.items[i], itemName, parent, opts, acc.rnd)), n)

ConvertList(items, opts, parent, rnd) ==
  convertListItems(items, 1, TrimSuffix(ItemFuncApply(opts.ItemFunc, parent), S_atFlat), parent, opts,
                   Res(<<>>, items, rnd), Len(items.items))

Convert(obj, opts, parent, rnd) ==
  LET itemName == ItemFuncApply(opts.ItemFunc, parent)
  IN  CASE obj.kind = "null" -> Res(ConvertNone(itemName, opts.AttrType, Null, opts.CDATA), obj, rnd)
        [] obj.kind = "bool" -> Res(ConvertBool(itemName, obj, opts.AttrType, Null, opts.CDATA), obj, rnd)
        [] obj.kind \in {"int", "float", "str"} ->
             Res(ConvertKV(itemName, obj, opts.AttrType, Null, opts.CDATA), obj, rnd)
        [] obj.kind = "map" -> ConvertDict(obj, opts, parent, rnd)
        [] obj.kind = "list" -> ConvertList(obj, opts, parent, rnd)
        [] obj.kind = "time" ->
             Res(ConvertKV(itemName, Str(FormatRFC3339(obj)), opts.AttrType, Null, opts.CDATA), obj, rnd)

(***************************************************************************)
(* Document assembly.                                                      *)
(***************************************************************************)
\* a splice of the namespace into every map and array start tag
XPathDocumentEverywhere(xmlContent, nsAttr) ==
  Prolog \o
  (IF HasPrefix(xmlContent, S_openMap) \/ HasPrefix(xmlContent, S_openArray)
   THEN ReplaceAll(ReplaceAll(xmlContent, S_openMap, S_openMap \o nsAttr), S_openArray, S_openArray \o nsAttr)
   ELSE <<"<">> \o S_map \o nsAttr \o <<">">> \o xmlContent \o <<"<", "/">> \o S_map \o <<">">>)

\* buildXPathXML from its switch on: xmlContent is what ConvertToXPath31 returned
XPathDocument(xmlContent, nsAttr) ==
  Prolog \o
  (IF HasPrefix(xmlContent, S_openMap)
   THEN ReplaceFirst(xmlContent, S_openMap, S_openMap \o nsAttr)
   ELSE IF HasPrefix(xmlContent, S_openArray)
   THEN ReplaceFirst(xmlContent, S_openArray, S_openArray \o nsAttr)
   ELSE <<"<">> \o S_map \o nsAttr \o <<">">> \o xmlContent \o <<"<", "/">> \o S_map \o <<">">>)

buildXPathXML(obj) ==
  XPathDocument(ConvertToXPath31(obj, <<>>),
                <<" ", "x", "m", "l", "n", "s", "=", "\"">> \o XPathFunctionsNS \o <<"\"">>)

\* buildXSINamespace; order is the order in which the range over the xsi map
\* visits its keys
buildXSINamespace(prefix, value, order) ==
  IF value.kind # "map" THEN <<>>
  ELSE Flatten([i \in 1..Len(order) |->
         CASE order[i] = S_schemaInstance ->
                <<" ">> \o S_xmlns \o <<":">> \o prefix \o <<"=", "\"">> \o Sprintv(MapGet(value, order[i])) \o <<"\"">>
           [] order[i] = S_schemaLocation ->
                <<" ">> \o S_xsi \o <<":">> \o order[i] \o <<"=", "\"">> \o Sprintv(MapGet(value, order[i])) \o <<"\"">>
           [] OTHER -> <<>>])

\* a buildNamespaceString without the case of the prefix xmlns
buildNamespaceStringNoDefault(namespaces, order, xsiOrder) ==
  IF namespaces = Null THEN <<>>
  ELSE Flatten([i \in 1..Len(order) |->
         CASE order[i] = S_xsi -> buildXSINamespace(order[i], MapGet(namespaces, order[i]), xsiOrder)
           [] OTHER ->
                <<" ">> \o S_xmlns \o <<":">> \o order[i] \o <<"=", "\"">> \o Sprintv(MapGet(namespaces, order[i])) \o <<"\"">>])

\* buildNamespaceString; order and xsiOrder are the orders in which the two
\* range loops visit the keys of the maps
buildNamespaceString(namespaces, order, xsiOrder) ==
  IF namespaces = Null THEN <<>>
  ELSE Flatten([i \in 1..Len(order) |->
         CASE order[i] = S_xsi -> buildXSINamespace(order[i], MapGet(namespaces, order[i]), xsiOrder)
           [] order[i] = S_xmlns ->
                <<" ">> \o S_xmlns \o <<"=", "\"">> \o Sprintv(MapGet(namespaces, order[i])) \o <<"\"">>
           [] OTHER ->
                <<" ">> \o S_xmlns \o <<":">> \o order[i] \o <<"=", "\"">> \o Sprintv(MapGet(namespaces, order[i])) \o <<"\"">>])

\* buildStandardXML writing the prolog before the branch on opts.Root
\* the prolog and the root element around outputElem, what Convert returned
RootDocument(opts, namespaceStr, outputElem) ==
  Res(Prolog \o Element(opts.CustomRoot, namespaceStr, outputElem.out), outputElem.obj, outputElem.rnd)
\* the prolog before what Convert returned
PrologBefore(r) == Res(Prolog \o r.out, r.obj, r.rnd)

\* buildStandardXML writing the prolog before the branch on opts.Root
buildStandardXMLPrologFirst(obj, opts, order, xsiOrder, rnd) ==
  IF opts.Root
  THEN RootDocument(opts, buildNamespaceString(opts.XMLNamespaces, order, xsiOrder),
                    Convert(obj, opts, opts.CustomRoot, rnd))
  ELSE PrologBefore(Convert(obj, opts, <<>>, rnd))

buildStandardXML(obj, opts, order, xsiOrder, rnd) ==
  IF opts.Root
  THEN RootDocument(opts, buildNamespaceString(opts.XMLNamespaces, order, xsiOrder),
                    Convert(obj, opts, opts.CustomRoot, rnd))
  ELSE Convert(obj, opts, <<>>, rnd)

\* the options passed on as they came
DictToXMLOptsAsGiven(opts) == opts
\* DictToXML, its first statement: a nil ItemFunc becomes DefaultItemFunc
DictToXMLOpts(opts) ==
  IF opts.ItemFunc = NilItemFunc THEN [opts EXCEPT !.ItemFunc = DefaultItemFunc] ELSE opts

\* a DictToXML that takes the XPath dialect only when root is on
DictToXMLUnderRoot(obj, opts, order, xsiOrder, rnd) ==
  IF DictToXMLOpts(opts).XPathFormat /\ DictToXMLOpts(opts).Root THEN Res(buildXPathXML(obj), obj, rnd)
  ELSE buildStandardXML(obj, DictToXMLOpts(opts), order, xsiOrder, rnd)

\* DictToXML(obj, opts), given the orders of the two namespace range loops
\* and the stream of random draws
DictToXML(obj, opts, order, xsiOrder, rnd) ==
  IF DictToXMLOpts(opts).XPathFormat THEN Res(buildXPathXML(obj), obj, rnd)
  ELSE buildStandardXML(obj, DictToXMLOpts(opts), order, xsiOrder, rnd)

(***************************************************************************)
(* The values and options the conversions are run on.                      *)
(***************************************************************************)
MaxKeys == 2     \* most keys of a generated mapping
MaxItems == 2    \* most items of a generated sequence
MaxCalls == 2    \* most calls a caller makes on one value

\* a
K_a == <<"a">>
\* b
K_b == <<"b">>
\* B
K_B == <<"B">>
\* ab
K_ab == <<"a", "b">>
\* c
K_c == <<"c">>
\* d
K_d == <<"d">>
\* k
K_k == <<"k">>
\* w
K_w == <<"w">>
\* x
K_x == <<"x">>
\* p
K_p == <<"p">>
\* custom
K_custom == <<"c", "u", "s", "t", "o", "m">>
\* a@flat
K_aFlat == <<"a", "@", "f", "l", "a", "t">>
\* a:b:c
K_abc == <<"a", ":", "b", ":", "c">>
\* a b
K_aSpaceB == <<"a", " ", "b">>
\* 12
K_digits == <<"1", "2">>
\* (the empty string)
K_empty == <<>>
\* <a
K_ltA == <<"<", "a">>
\* a&b
K_aAmpB == <<"a", "&", "b">>
\* /
K_slash == <<"/">>
\* urn:u
K_uri == <<"u", "r", "n", ":", "u">>
\* urn:v
K_uri2 == <<"u", "r", "n", ":", "v">>
\* my root
K_myRoot == <<"m", "y", " ", "r", "o", "o", "t">>
\* a<b
K_text == <<"a", "<", "b">>
\* 1.5
K_f15 == <<"1", ".", "5">>

\* the sequences of n distinct members of S
Perms(S, n) == {s \in [1..n -> S] : \A i, j \in 1..n : i # j => s[i] # s[j]}
\* the orders in which a range over the map m may visit its keys
RangeOrders(m) == IF m.kind = "map" THEN Perms({m.keys[i] : i \in 1..Len(m.keys)}, Len(m.keys)) ELSE {<<>>}
SeqsUpTo(S, n) == UNION {[1..k -> S] : k \in 0..n}

\* 2023-02-15 12:30:45 UTC
SomeTime == Time(<<2023, 2, 15, 12, 30, 45>>)
PrimLeaves == {Null, Bool(TRUE), Number(3), Str(K_x)}
InnerMap == Map(<<K_d, K_c>>, <<Null, Bool(TRUE)>>)

\* mappings of up to MaxKeys keys, inserted in every order, of numbers and
\* of a nested mapping
OrderedData ==
  {Map(ks, vs) : <<ks, vs>> \in
     UNION {Perms({K_b, K_a, K_B, K_ab}, n) \X [1..n -> {Number(1), InnerMap}] : n \in 0..MaxKeys}}
OrderedInputs ==
  {[data |-> d, opts |-> [DefaultOptions EXCEPT !.Root = r, !.XPathFormat = x, !.AttrType = ~r]] :
     d \in OrderedData, r \in BOOLEAN, x \in BOOLEAN}

\* a sequence of primitives under the key k
ListInputs ==
  {[data |-> Map(<<K_k>>, <<List(items)>>),
    opts |-> [DefaultOptions EXCEPT !.Root = FALSE, !.ItemWrap = w, !.AttrType = t, !.ItemFunc = f]] :
     items \in SeqsUpTo(PrimLeaves, MaxItems), w \in BOOLEAN, t \in BOOLEAN,
     f \in {DefaultItemFunc, ConstItemFunc(K_custom)}}

\* mappings that carry the meta-keys, as a mapping value and as a member
\* of a sequence
Entry(k, vals) == {<<>>} \cup {<<<<k, v>>>> : v \in vals}
\* an @attrs mapping of two attributes, id among them, inserted in descending order
TwoAttrs == Map(<<K_w, S_id>>, <<Str(K_text), Number(1)>>)
MetaMaps ==
  {Map([i \in 1..Len(es) |-> es[i][1]], [i \in 1..Len(es) |-> es[i][2]]) :
     es \in {a \o f \o v \o b :
               a \in Entry(S_atAttrs, {Map(<<K_w>>, <<Str(K_x)>>), Str(K_x), TwoAttrs}),
               f \in Entry(S_atFlat, {Bool(TRUE), Bool(FALSE)}),
               v \in Entry(S_atVal, {Number(1), Map(<<K_c>>, <<Number(1)>>), Null}),
               b \in Entry(K_b, {Str(K_x)})}}
MetaInputs ==
  {[data |-> Map(<<K_a>>, <<d>>), opts |-> o] :
     d \in MetaMaps \cup {List(<<m>>) : m \in MetaMaps},
     o \in {DefaultOptions,
            [DefaultOptions EXCEPT !.AttrType = FALSE, !.ItemWrap = FALSE],
            [DefaultOptions EXCEPT !.ListHeaders = TRUE],
            [DefaultOptions EXCEPT !.XPathFormat = TRUE]}}

\* the mappings with one meta-key or two, under ids
IdInputs ==
  {[data |-> d, opts |-> [DefaultOptions EXCEPT !.IDs = TRUE, !.AttrType = t]] :
     d \in {Map(<<K_a>>, <<m>>) : m \in {mm \in MetaMaps : Len(mm.keys) \in 1..2}}
           \cup {Map(<<K_a>>, <<List(<<m>>)>>) : m \in {mm \in MetaMaps : Len(mm.keys) = 1}},
     t \in BOOLEAN}

\* keys that are no XML names
OddKeys == {K_aFlat, K_abc, K_aSpaceB, K_digits, K_empty, K_ltA, K_aAmpB, K_slash, S_atFlat}
NameInputs ==
  {[data |-> Map(<<k>>, <<v>>), opts |-> o] :
     k \in OddKeys, v \in {Str(K_x), List(<<Number(1)>>)},
     o \in {DefaultOptions,
            [DefaultOptions EXCEPT !.CDATA = TRUE, !.AttrType = FALSE],
            [DefaultOptions EXCEPT !.XPathFormat = TRUE]}}

\* namespace mappings on the root element, with and without ids
Namespaces ==
  {Null, EmptyMap,
   Map(<<S_xmlns>>, <<Str(K_uri)>>),
   Map(<<K_p, S_xmlns>>, <<Str(K_uri), Str(K_uri2)>>),
   Map(<<S_xsi>>, <<Map(<<S_schemaInstance, S_schemaLocation>>, <<Str(K_uri), Str(K_uri2)>>)>>),
   Map(<<S_xsi>>, <<Str(K_uri)>>),
   Map(<<S_xsi, K_p>>, <<Map(<<S_schemaLocation, K_k>>, <<Str(K_uri), Str(K_uri2)>>), Str(K_uri2)>>)}
NamespaceInputs ==
  {[data |-> Map(<<K_a, K_b>>, <<Number(1), Map(<<K_c>>, <<Str(K_x)>>)>>),
    opts |-> [DefaultOptions EXCEPT !.XMLNamespaces = ns, !.IDs = i, !.Root = r]] :
     ns \in Namespaces, i \in BOOLEAN, r \in BOOLEAN}

\* values that are no mapping at the top level, under every item function
TopValues ==
  {Null, Bool(FALSE), Number(0), Float(K_f15), Str(K_text), Str(S_cdataClose), SomeTime,
   EmptyMap, List(<<>>), List(<<List(<<>>), SomeTime>>)}
TopInputs ==
  {[data |-> d,
    opts |-> [DefaultOptions EXCEPT !.Root = r, !.XPathFormat = x, !.ItemFunc = f, !.CDATA = ~r,
                                    !.CustomRoot = c]] :
     d \in TopValues, r \in BOOLEAN, x \in BOOLEAN, c \in {S_root, K_myRoot},
     f \in {NilItemFunc, DefaultItemFunc, SuffixItemFunc(S_atFlat)}}

\* Options that set xpathFormat: the default ones, the ones that differ from
\* them in one other field, and the ones that differ in every other field
AllOtherOptions ==
  [Root |-> FALSE, CustomRoot |-> K_myRoot, IDs |-> TRUE, AttrType |-> FALSE, ItemWrap |-> FALSE,
   ItemFunc |-> ConstItemFunc(K_custom), CDATA |-> TRUE, XMLNamespaces |-> Map(<<S_xmlns>>, <<Str(K_uri)>>),
   ListHeaders |-> TRUE, XPathFormat |-> TRUE]
OtherFields == (DOMAIN DefaultOptions) \ {"XPathFormat"}
XPathOptions ==
  {[f \in DOMAIN DefaultOptions |->
      IF f = "XPathFormat" THEN TRUE ELSE IF f \in F THEN AllOtherOptions[f] ELSE DefaultOptions[f]] :
     F \in {{}, OtherFields} \cup {{f} : f \in OtherFields}}
\* values for the XPath dialect: mappings with at least two meta-keys, a
\* sequence and a string
XPathData ==
  {Map(<<K_a>>, <<m>>) : m \in {mm \in MetaMaps : Len(mm.keys) >= 3}}
    \cup {List(<<Str(K_text), Null>>), Str(K_text)}
XPathInputs == {[data |-> d, opts |-> o] : d \in XPathData, o \in XPathOptions}

\* a time.Time at the top level, as mapping value, as member of a sequence
\* and as the value of @val
TimeData ==
  {SomeTime, Map(<<K_a>>, <<SomeTime>>), List(<<SomeTime>>),
   Map(<<K_a>>, <<List(<<SomeTime, Number(1)>>)>>),
   Map(<<K_a>>, <<Map(<<S_atVal>>, <<SomeTime>>)>>),
   Map(<<K_a>>, <<List(<<Map(<<S_atVal>>, <<SomeTime>>)>>)>>)}
TimeInputs ==
  {[data |-> d, opts |-> [DefaultOptions EXCEPT !.ItemWrap = w, !.AttrType = t]] :
     d \in TimeData, w \in BOOLEAN, t \in BOOLEAN}

Inputs ==
  OrderedInputs \cup ListInputs \cup MetaInputs \cup NameInputs \cup NamespaceInputs \cup TopInputs
    \cup XPathInputs \cup IdInputs \cup TimeInputs

\* the number of mapping entries of a value: no conversion draws more ids
RECURSIVE NumEntries(_)
SumEntries(items) ==
  LET RECURSIVE sum(_)
      sum(i) == IF i > Len(items) THEN 0 ELSE NumEntries(items[i]) + sum(i + 1)
  IN  sum(1)
NumEntries(v) ==
  IF v.kind = "map" THEN Len(v.keys) + SumEntries(v.items)
  ELSE IF v.kind = "list" THEN SumEntries(v.items)
  ELSE 0
\* what rand.Intn may return
Draws == {0, 7}
Streams(v, o) == IF o.IDs /\ ~o.XPathFormat THEN [1..NumEntries(v) -> Draws] ELSE {<<>>}

(***************************************************************************)
(* The Json2xml converter and the library entry points.                    *)
(***************************************************************************)
New(data) ==
  [data |-> data, wrapper |-> S_all, root |-> TRUE, pretty |-> TRUE,
   attrType |-> TRUE, itemWrap |-> TRUE, xpathFormat |-> FALSE]
WithWrapper(j, wrapper) == [j EXCEPT !.wrapper = wrapper]
WithRoot(j, root) == [j EXCEPT !.root = root]
WithPretty(j, pretty) == [j EXCEPT !.pretty = pretty]
WithAttrType(j, attrType) == [j EXCEPT !.attrType = attrType]
\* a WithItemWrap that sets attrType as well
WithItemWrapAndAttrType(j, itemWrap) == [j EXCEPT !.itemWrap = itemWrap, !.attrType = itemWrap]
WithItemWrap(j, itemWrap) == [j EXCEPT !.itemWrap = itemWrap]
WithXPathFormat(j, xpathFormat) == [j EXCEPT !.xpathFormat = xpathFormat]

\* A returned value: nil, a string or a byte slice.  indented tells that
\* the text is the encoder's indented re-serialisation of text, which
\* PrettyPrint returns, and not text itself.
NilValue == [kind |-> "nil", text |-> <<>>, indented |-> FALSE]
StringValue(text, indented) == [kind |-> "string", text |-> text, indented |-> indented]
BytesValue(text, indented) == [kind |-> "bytes", text |-> text, indented |-> indented]
\* A returned pair; err is "nil" or the name of the error.
Pair(val, err) == [val |-> val, err |-> err]

\* PrettyPrint returning what the encoder has written when the decoder fails
PrettyPrintPartial(xmlBytes) ==
  IF XMLDecodes(xmlBytes)
  THEN Pair(StringValue(xmlBytes, TRUE), "nil")
  ELSE Pair(StringValue(xmlBytes, TRUE), "SyntaxError")

\* PrettyPrint: the decoder's error, or the indented text
PrettyPrint(xmlBytes) ==
  IF XMLDecodes(xmlBytes)
  THEN Pair(StringValue(xmlBytes, TRUE), "nil")
  ELSE Pair(StringValue(<<>>, FALSE), "SyntaxError")

\* The Options literal of ToXML; the fields it does not name are zero.
ToXMLOptions(j) ==
  [Root |-> j.root, CustomRoot |-> j.wrapper, IDs |-> FALSE, AttrType |-> j.attrType,
   ItemWrap |-> j.itemWrap, ItemFunc |-> DefaultItemFunc, CDATA |-> FALSE,
   XMLNamespaces |-> Null, ListHeaders |-> FALSE, XPathFormat |-> j.xpathFormat]

\* What an entry point hands back: the returned pair, and the data as
\* the call leaves it.
Outcome(pair, data) == [ret |-> pair, data |-> data]

\* ToXML from its test of j.pretty on: xmlData is what DictToXML returned
ToXMLResult(j, xmlData) ==
  Outcome(IF j.pretty
          THEN IF PrettyPrint(xmlData.out).err # "nil"
               THEN Pair(NilValue, "ErrInvalidData")
               ELSE Pair(PrettyPrint(xmlData.out).val, "nil")
          ELSE Pair(BytesValue(xmlData.out, FALSE), "nil"),
          xmlData.obj)

ToXML(j) ==
  IF \/ j.data = Null
     \/ (j.data.kind = "map" /\ Len(j.data.keys) = 0)
     \/ (j.data.kind = "list" /\ Len(j.data.items) = 0)
  THEN Outcome(Pair(NilValue, "nil"), j.data)
  ELSE ToXMLResult(j, DictToXML(j.data, ToXMLOptions(j), <<>>, <<>>, <<>>))

\* ToXMLString after its call of ToXML, which returned t
ToXMLStringResult(t) ==
  Outcome(IF t.ret.err # "nil" THEN Pair(StringValue(<<>>, FALSE), t.ret.err)
          ELSE IF t.ret.val = NilValue THEN Pair(StringValue(<<>>, FALSE), "nil")
          ELSE Pair(StringValue(t.ret.val.text, t.ret.val.indented), "nil"),
          t.data)
ToXMLString(j) == ToXMLStringResult(ToXML(j))

\* ToXMLBytes after its call of ToXML, which returned t
ToXMLBytesResult(t) ==
  Outcome(IF t.ret.err # "nil" THEN Pair(NilValue, t.ret.err)
          ELSE IF t.ret.val = NilValue THEN Pair(NilValue, "nil")
          ELSE Pair(BytesValue(t.ret.val.text, t.ret.val.indented), "nil"),
          t.data)
ToXMLBytes(j) == ToXMLBytesResult(ToXML(j))

\* ConvertToXML's return of DictToXML's bytes
ConvertToXMLResult(r) == Outcome(Pair(BytesValue(r.out, FALSE), "nil"), r.obj)
\* *opts as ConvertToXML hands it on; opts = Null is the nil pointer
ConvertToXMLOpts(opts) ==
  IF opts = Null THEN DefaultOptions
  ELSE IF opts.ItemFunc = NilItemFunc THEN [opts EXCEPT !.ItemFunc = DefaultItemFunc]
  ELSE opts

ConvertToXML(data, opts, order, xsiOrder, rnd) ==
  IF data = Null THEN Outcome(Pair(NilValue, "nil"), data)
  ELSE ConvertToXMLResult(DictToXML(data, ConvertToXMLOpts(opts), order, xsiOrder, rnd))

(***************************************************************************)
(* State.  Six specifications share it: a caller of DictToXML (Spec), a    *)
(* caller of MakeValidXMLName (SpecName), a user of the converter object   *)
(* and ConvertToXML (SpecEntry), one call of DictToXML run loop iteration  *)
(* by loop iteration (SpecRun), a caller of EscapeXML and WrapCDATA        *)
(* (SpecText), and one run of the command line tool (SpecCLI).             *)
(***************************************************************************)
VARIABLES
  pc,       \* "ready" before a call, "running" within one, "returned" after it, "panicked"
  tree,     \* the caller's value, as the calls leave it
  options,  \* the caller's Options
  xml,      \* the bytes the last DictToXML returned
  calls,    \* the calls of DictToXML made: the value passed, the options, the bytes returned
  nameArg,  \* the arguments of MakeValidXMLName
  nameRes,  \* what it returned
  conv,     \* the Json2xml object
  ret,      \* what the last entry point returned, and which
  stack,    \* the loops of the running conversion, innermost last
  strArg,   \* the string handed to EscapeXML or WrapCDATA
  flags,    \* the command line as flag.Parse left it: the flag variables and flag.Args()
  proc      \* the process of the command line tool: what it read and wrote, its exit code

vars == <<pc, tree, options, xml, calls, nameArg, nameRes, conv, ret, stack, strArg, flags, proc>>

\* the flag defaults of init(); a string flag is the empty string when not given
DefaultFlags ==
  [inputURL |-> <<>>, inputString |-> <<>>, outputFile |-> <<>>, wrapper |-> S_all,
   root |-> TRUE, pretty |-> TRUE, attrType |-> TRUE, itemWrap |-> TRUE, xpathFormat |-> FALSE,
   cdata |-> FALSE, listHeaders |-> FALSE, showVersion |-> FALSE, showHelp |-> FALSE, args |-> <<>>]
\* no process: exit is -1 while the process has not exited
NoProc ==
  [at |-> "none", stat |-> "none", reads |-> <<>>, data |-> Null, output |-> NilValue,
   stdout |-> <<>>, stderr |-> <<>>, file |-> <<>>, exit |-> -1]
\* no command line tool runs and no text function is called
NoCLI == flags = DefaultFlags /\ proc = NoProc
Rest == <<strArg, flags, proc>>

NoName == [name |-> <<>>, attrs |-> Null]
NoArg == [key |-> <<>>, attrs |-> Null]
NoReturn == [fn |-> "none", val |-> NilValue, err |-> "nil"]

\* A caller holds a value and Options and calls DictToXML on them, again
\* and again.
Init ==
  /\ pc = "ready"
  /\ \E inp \in Inputs : tree = inp.data /\ options = inp.opts
  /\ xml = <<>>
  /\ calls = <<>>
  /\ nameArg = NoArg /\ nameRes = NoName
  /\ conv = New(Null) /\ ret = NoReturn
  /\ stack = <<>>
  /\ strArg = <<>> /\ NoCLI

XsiOrders(ns) == IF MapHas(ns, S_xsi) THEN RangeOrders(MapGet(ns, S_xsi)) ELSE {<<>>}

\* the call has returned r: the bytes, and the value as the call left it
DictToXMLReturns(r) ==
  /\ xml' = r.out
  /\ tree' = r.obj
  /\ calls' = Append(calls, [arg |-> tree, opts |-> options, out |-> r.out])

CallDictToXML ==
  /\ pc \in {"ready", "returned"}
  /\ Len(calls) < MaxCalls
  /\ \E order \in RangeOrders(options.XMLNamespaces),
        xsiOrder \in XsiOrders(options.XMLNamespaces),
        rnd \in Streams(tree, options) :
       DictToXMLReturns(DictToXML(tree, options, order, xsiOrder, rnd))
  /\ pc' = "returned"
  /\ UNCHANGED <<options, nameArg, nameRes, conv, ret, stack, Rest>>

Next == CallDictToXML

Spec == Init /\ [][Next]_vars

(***************************************************************************)
(* Properties of DictToXML, checked under Spec.                            *)
(***************************************************************************)
Returned == pc = "returned"
LastCall == calls[Len(calls)]

\* the mappings of a value tree
RECURSIVE MapsIn(_)
MapsIn(v) ==
  IF v.kind \in {"map", "list"}
  THEN (IF v.kind = "map" THEN {v} ELSE {}) \cup UNION {MapsIn(v.items[i]) : i \in 1..Len(v.items)}
  ELSE {}
KeysOf(m) == {m.keys[i] : i \in 1..Len(m.keys)}

\* the indices at which a start tag of the element name begins in text
StartTags(text, name) ==
  {i \in 1..Len(text) : /\ HasAt(text, i, <<"<">> \o name)
                        /\ i + Len(name) + 1 <= Len(text)
                        /\ text[i + Len(name) + 1] \in {" ", ">", "/"}}
\* the indices at which sub occurs in text
Occurrences(text, sub) == {i \in 1..Len(text) : HasAt(text, i, sub)}
\* the key attribute of the XPath dialect for the key k
KeyAttr(k) == <<" ", "k", "e", "y", "=", "\"">> \o EscapeXML(k) \o <<"\"">>
\* where the child made for the key k of a mapping shows in the output: in
\* the XPath dialect its key attribute, in the default dialect the start
\* tag of its name, or the name attribute when the key is moved into one
ChildMarks(o, text, k) ==
  IF o.XPathFormat THEN Occurrences(text, KeyAttr(k))
  ELSE LET nm == MakeValidXMLName(k, EmptyMap)
       IN  IF MapHas(nm.attrs, S_name)
           THEN Occurrences(text, <<"<">> \o nm.name \o MakeAttrString(nm.attrs))
           ELSE StartTags(text, nm.name)
TheMark(o, text, k) == CHOOSE i \in ChildMarks(o, text, k) : TRUE

\* C1: for every mapping of the value, at any depth and in both dialects,
\* the children appear in ascending order of the mapping's keys, whatever
\* the order the keys were inserted in: of two keys whose children can be
\* told in the output, the child of the smaller key comes first.
C1_SortedChildren ==
  Returned =>
    \A m \in MapsIn(LastCall.arg) : \A k1, k2 \in KeysOf(m) :
      (/\ StrLess(k1, k2)
       /\ Cardinality(ChildMarks(LastCall.opts, xml, k1)) = 1
       /\ Cardinality(ChildMarks(LastCall.opts, xml, k2)) = 1)
      => TheMark(LastCall.opts, xml, k1) < TheMark(LastCall.opts, xml, k2)

\* a mapping whose keys were inserted in descending order, with a nested
\* mapping inserted in descending order too, has been converted in the
\* default dialect and all four children can be told in the output
C1_Witness ==
  /\ Returned
  /\ ~LastCall.opts.XPathFormat
  /\ LastCall.arg = Map(<<K_b, K_a>>, <<Number(1), InnerMap>>)
  /\ \A k \in {K_a, K_b, K_c, K_d} : Cardinality(ChildMarks(LastCall.opts, xml, k)) = 1

\* C2: with xpathFormat off, root on and a legal customRoot, the bytes are a
\* well-formed document: the prolog, then the root element, every start tag
\* a legal name and closed by its end tag, properly nested, so that the
\* decoder PrettyPrint runs accepts them.
C2_WellFormed ==
  (/\ Returned
   /\ ~LastCall.opts.XPathFormat
   /\ LastCall.opts.Root
   /\ KeyIsValidXML(LastCall.opts.CustomRoot))
  => /\ HasPrefix(xml, Prolog \o <<"<">> \o LastCall.opts.CustomRoot)
     /\ HasSuffix(xml, <<"<", "/">> \o LastCall.opts.CustomRoot \o <<">">>)
     /\ XMLDecodes(xml)

\* C4 as claimed: the output begins with the prolog for every value and
\* every Options.
C4_AlwaysProlog == Returned => HasPrefix(xml, Prolog)

\* C4: the output begins with the prolog exactly when xpathFormat is on or
\* root is on; in the default dialect with root off it is the bare fragment.
C4_PrologIffRootOrXPath ==
  Returned => (HasPrefix(xml, Prolog) <=> (LastCall.opts.XPathFormat \/ LastCall.opts.Root))

\* a non-empty fragment has been returned with root off in the default dialect
C4_Witness ==
  /\ Returned
  /\ ~LastCall.opts.Root /\ ~LastCall.opts.XPathFormat
  /\ xml # <<>>
  /\ ~HasPrefix(xml, Prolog)

\* the names of the start tags of text, in document order
RECURSIVE StartTagNames(_, _)
StartTagNames(text, i) ==
  IF i > Len(text) THEN <<>>
  ELSE IF text[i] = "<" /\ i < Len(text) /\ text[i + 1] \notin {"/", "?", "!"}
       THEN LET e == CHOOSE j \in (i + 1)..(Len(text) + 1) :
                       /\ j = Len(text) + 1 \/ text[j] \in {" ", ">"}
                       /\ \A h \in (i + 1)..(j - 1) : text[h] \notin {" ", ">"}
            IN  <<SubSeq(text, i + 1, e - 1)>> \o StartTagNames(text, e)
       ELSE StartTagNames(text, i + 1)

\* the value is a non-empty sequence of primitives under one key that has
\* no @flat marker, converted in the default dialect with listHeaders off
PrimitiveListCall ==
  /\ Returned
  /\ ~LastCall.opts.XPathFormat /\ ~LastCall.opts.ListHeaders /\ ~LastCall.opts.Root
  /\ LastCall.arg.kind = "map" /\ Len(LastCall.arg.keys) = 1
  /\ KeyIsValidXML(LastCall.arg.keys[1])
  /\ LastCall.arg.items[1].kind = "list"
  /\ Len(LastCall.arg.items[1].items) > 0
  /\ \A i \in 1..Len(LastCall.arg.items[1].items) : LastCall.arg.items[1].items[i] \in PrimLeaves

\* C5: a sequence of primitives under the key k: with itemWrap on, one
\* element k wrapping one element per item with the name itemNameFn gives;
\* with itemWrap off no wrapper, and every item, Null and Bool too, is an
\* element named k.
C5_PrimitiveItems ==
  PrimitiveListCall =>
    LET k == LastCall.arg.keys[1]
        n == Len(LastCall.arg.items[1].items)
    IN  StartTagNames(xml, 1) =
          IF LastCall.opts.ItemWrap
          THEN <<k>> \o [i \in 1..n |-> ItemFuncApply(LastCall.opts.ItemFunc, k)]
          ELSE [i \in 1..n |-> k]

\* C7: the call leaves the caller's value as it was: after DictToXML
\* returns, every mapping has the keys and values it had before the call,
\* the meta-keys included.
C7_ValueUnchanged == Returned => tree = LastCall.arg

\* C8: with ids off, two calls with equal value and equal Options return
\* identical bytes, whatever the xmlNamespaces mapping.
C8_Deterministic ==
  \A i, j \in 1..Len(calls) :
    (calls[i].arg = calls[j].arg /\ calls[i].opts = calls[j].opts /\ ~calls[i].opts.IDs)
    => calls[i].out = calls[j].out

\* C10: in the XPath dialect every child of a map element carries exactly
\* one key attribute, the escaped key, for every string key, and no other
\* element carries one: the root is a map or an array with the namespace
\* and no key, every key of every mapping shows as its key attribute, and
\* there are as many key attributes as mapping entries.
C10_KeyAttributes ==
  (Returned /\ LastCall.opts.XPathFormat) =>
    /\ \/ HasPrefix(xml, Prolog \o S_openMap \o <<" ">> \o S_xmlns)
       \/ HasPrefix(xml, Prolog \o S_openArray \o <<" ">> \o S_xmlns)
    /\ \A m \in MapsIn(LastCall.arg) : \A k \in KeysOf(m) : Occurrences(xml, KeyAttr(k)) # {}
    /\ Cardinality(Occurrences(xml, <<" ", "k", "e", "y", "=", "\"">>)) = NumEntries(LastCall.arg)

(***************************************************************************)
(* SpecName: MakeValidXMLName called on a key and an attribute map.        *)
(***************************************************************************)
MaxKeyLen == 3   \* the longest generated key
KeyChars == {"a", "1", " ", ":", "<", "-"}
NameKeys == SeqsUpTo(KeyChars, MaxKeyLen) \cup OddKeys
NameAttrs == {Null, Map(<<S_id>>, <<Str(K_x)>>)}

InitName ==
  /\ pc = "ready"
  /\ \E k \in NameKeys, a \in NameAttrs : nameArg = [key |-> k, attrs |-> a]
  /\ nameRes = NoName
  /\ tree = Null /\ options = DefaultOptions /\ xml = <<>> /\ calls = <<>>
  /\ conv = New(Null) /\ ret = NoReturn
  /\ stack = <<>>
  /\ strArg = <<>> /\ NoCLI

CallMakeValidXMLName ==
  /\ pc = "ready"
  /\ nameRes' = MakeValidXMLName(nameArg.key, nameArg.attrs)
  /\ pc' = "returned"
  /\ UNCHANGED <<tree, options, xml, calls, nameArg, conv, ret, stack, Rest>>

NextName == CallMakeValidXMLName

SpecName == InitName /\ [][NextName]_vars

\* C3: whatever the key and the attribute map, the name MakeValidXMLName
\* returns is not empty and is a legal XML element name: KeyIsValidXML holds
\* for it.
C3_NameIsValid ==
  Returned => (nameRes.name # <<>> /\ KeyIsValidXML(nameRes.name))

(***************************************************************************)
(* SpecEntry: a converter is made by New, configured by the With methods   *)
(* and asked for the document; or ConvertToXML is called on the data.      *)
(***************************************************************************)
EntryData ==
  {Null, EmptyMap, List(<<>>), Map(<<K_a>>, <<Number(1)>>), List(<<Str(K_x)>>), Str(K_text),
   Map(<<K_aFlat>>, <<Str(K_x)>>), Map(<<K_a>>, <<Map(<<S_atVal>>, <<Number(1)>>)>>)}
\* the Options pointers handed to ConvertToXML; Null is the nil pointer
EntryOptions == {Null, DefaultOptions, [DefaultOptions EXCEPT !.ItemFunc = NilItemFunc, !.Root = FALSE]}

\* the texts handed to PrettyPrint, the first one the unclosed tag of
\* TestPrettyPrintError: <unclosed  x  <a>  </a>  <a></a>  <a></b>  <a>x</a>  <a/>  <a/><b/>  <a><b></a></b>  <a><b/></a>  &  <a>&amp;</a>  <a>&</a>  <1/>  <a  <a>x  <a>x</a>x
M_unclosed == <<"<", "u", "n", "c", "l", "o", "s", "e", "d">>
Markups ==
  {M_unclosed,
   <<>>,
   <<"x">>,
   <<"<", "a", ">">>,
   <<"<", "/", "a", ">">>,
   <<"<", "a", ">", "<", "/", "a", ">">>,
   <<"<", "a", ">", "<", "/", "b", ">">>,
   <<"<", "a", ">", "x", "<", "/", "a", ">">>,
   <<"<", "a", "/", ">">>,
   <<"<", "a", "/", ">", "<", "b", "/", ">">>,
   <<"<", "a", ">", "<", "b", ">", "<", "/", "a", ">", "<", "/", "b", ">">>,
   <<"<", "a", ">", "<", "b", "/", ">", "<", "/", "a", ">">>,
   <<"&">>,
   <<"<", "a", ">", "&", "a", "m", "p", ";", "<", "/", "a", ">">>,
   <<"<", "a", ">", "&", "<", "/", "a", ">">>,
   <<"<", "1", "/", ">">>,
   <<"<", "a">>,
   <<"<", "a", ">", "x">>,
   <<"<", "a", ">", "x", "<", "/", "a", ">", "x">>}

\* calls holds, for every setter, the argument of its latest call: <<>> when
\* it was never called
NoSetterCalls ==
  [WithWrapper |-> <<>>, WithRoot |-> <<>>, WithPretty |-> <<>>, WithAttrType |-> <<>>,
   WithItemWrap |-> <<>>, WithXPathFormat |-> <<>>]

InitEntry ==
  /\ pc = "ready"
  /\ \E d \in EntryData : conv = New(d)
  /\ ret = NoReturn
  /\ tree = Null /\ options = DefaultOptions /\ xml = <<>> /\ calls = NoSetterCalls
  /\ nameArg = NoArg /\ nameRes = NoName
  /\ stack = <<>>
  /\ strArg = <<>> /\ NoCLI

EntryFrame == UNCHANGED <<tree, options, xml, nameArg, nameRes, stack, Rest>>

CallWithWrapper ==
  /\ pc = "ready"
  /\ \E w \in {S_all, K_w} : conv' = WithWrapper(conv, w) /\ calls' = [calls EXCEPT !.WithWrapper = <<w>>]
  /\ UNCHANGED <<pc, ret>> /\ EntryFrame
CallWithRoot ==
  /\ pc = "ready"
  /\ \E b \in BOOLEAN : conv' = WithRoot(conv, b) /\ calls' = [calls EXCEPT !.WithRoot = <<b>>]
  /\ UNCHANGED <<pc, ret>> /\ EntryFrame
CallWithPretty ==
  /\ pc = "ready"
  /\ \E b \in BOOLEAN : conv' = WithPretty(conv, b) /\ calls' = [calls EXCEPT !.WithPretty = <<b>>]
  /\ UNCHANGED <<pc, ret>> /\ EntryFrame
CallWithAttrType ==
  /\ pc = "ready"
  /\ \E b \in BOOLEAN : conv' = WithAttrType(conv, b) /\ calls' = [calls EXCEPT !.WithAttrType = <<b>>]
  /\ UNCHANGED <<pc, ret>> /\ EntryFrame
CallWithItemWrap ==
  /\ pc = "ready"
  /\ \E b \in BOOLEAN : conv' = WithItemWrap(conv, b) /\ calls' = [calls EXCEPT !.WithItemWrap = <<b>>]
  /\ UNCHANGED <<pc, ret>> /\ EntryFrame
CallWithXPathFormat ==
  /\ pc = "ready"
  /\ \E b \in BOOLEAN : conv' = WithXPathFormat(conv, b) /\ calls' = [calls EXCEPT !.WithXPathFormat = <<b>>]
  /\ UNCHANGED <<pc, ret>> /\ EntryFrame

\* the entry point fn has returned r
Return(fn, r) ==
  /\ ret' = [fn |-> fn, val |-> r.ret.val, err |-> r.ret.err]
  /\ conv' = [conv EXCEPT !.data = r.data]
  /\ pc' = "returned"
  /\ UNCHANGED calls /\ EntryFrame

CallToXML == pc = "ready" /\ Return("ToXML", ToXML(conv))
CallToXMLString == pc = "ready" /\ Return("ToXMLString", ToXMLString(conv))
CallToXMLBytes == pc = "ready" /\ Return("ToXMLBytes", ToXMLBytes(conv))
CallConvertToXML ==
  /\ pc = "ready"
  /\ \E o \in EntryOptions : Return("ConvertToXML", ConvertToXML(conv.data, o, <<>>, <<>>, <<>>))

\* PrettyPrint called on a text of its own, as the tests call it
CallPrettyPrint ==
  /\ pc = "ready"
  /\ \E t \in Markups :
       /\ strArg' = t
       /\ ret' = [fn |-> "PrettyPrint", val |-> PrettyPrint(t).val, err |-> PrettyPrint(t).err]
  /\ pc' = "printed"
  /\ UNCHANGED <<conv, tree, options, xml, calls, nameArg, nameRes, stack, flags, proc>>

NextEntry ==
  \/ CallWithWrapper \/ CallWithRoot \/ CallWithPretty
  \/ CallWithAttrType \/ CallWithItemWrap \/ CallWithXPathFormat
  \/ CallToXML \/ CallToXMLString \/ CallToXMLBytes \/ CallConvertToXML
  \/ CallPrettyPrint

SpecEntry == InitEntry /\ [][NextEntry]_vars

IsEmptyTop(v) ==
  \/ v = Null
  \/ (v.kind = "map" /\ Len(v.keys) = 0)
  \/ (v.kind = "list" /\ Len(v.items) = 0)

\* C6: nil, an empty top-level mapping and an empty top-level sequence give
\* no document at every entry point: ToXML, ToXMLBytes and ConvertToXML
\* return (nil, nil) and ToXMLString returns ("", nil); never an error and
\* never a document.
C6_EmptyGivesNoDocument ==
  (Returned /\ IsEmptyTop(conv.data)) =>
    /\ ret.err = "nil"
    /\ ret.val = IF ret.fn = "ToXMLString" THEN StringValue(<<>>, FALSE) ELSE NilValue


\* ---------------------------------------------------------------------
\* One call of DictToXML, loop iteration by loop iteration.  The stack
\* holds the loops of ConvertDict, ConvertList, convertXPathMap and
\* convertXPathArray that are running: the collection ranged over and
\* the position in it.
\* ---------------------------------------------------------------------
Loop(fn, obj) == [fn |-> fn, obj |-> obj, i |-> 1]
LoopLen(f) == IF f.obj.kind = "map" THEN Len(f.obj.keys) ELSE Len(f.obj.items)
\* the value the loop is at: maps are ranged over in the order of sortedKeys
LoopValue(f) == IF f.obj.kind = "map" THEN MapGet(f.obj, sortedKeys(f.obj)[f.i]) ELSE f.obj.items[f.i]

\* What a call enters: a loop, nothing (it returns at once), or a panic
Enters(frames) == [panic |-> FALSE, frames |-> frames]
NilCall == [panic |-> TRUE, frames |-> <<>>]
\* opts.ItemFunc(parent) is a call through a nil function value when ItemFunc is nil
CallsItemFunc(opts, e) == IF opts.ItemFunc = NilItemFunc THEN NilCall ELSE e

\* Convert: the item name first, then the switch on the kind
ConvertEnters(obj, opts) ==
  CallsItemFunc(opts,
    IF obj.kind = "map" THEN Enters(<<Loop("ConvertDict", obj)>>)
    ELSE IF obj.kind = "list" THEN CallsItemFunc(opts, Enters(<<Loop("ConvertList", obj)>>))
    ELSE Enters(<<>>))
\* buildSubtree: a primitive is escaped in place, anything else goes to Convert
SubtreeEnters(rawItem, opts) ==
  IF IsPrimitiveType(rawItem) THEN Enters(<<>>) ELSE ConvertEnters(rawItem, opts)
\* convertDictValue and convertListItem: the switch on the normalized value
ValueEnters(val, opts) ==
  IF normalizeValue(val).kind = "map"
  THEN SubtreeEnters(extractSpecialAttrs(normalizeValue(val), EmptyMap).rawItem, opts)
  ELSE IF normalizeValue(val).kind = "list"
  THEN CallsItemFunc(opts, Enters(<<Loop("ConvertList", normalizeValue(val))>>))
  ELSE Enters(<<>>)
\* ConvertToXPath31: the switch on GetXPath31TagName
XPathEnters(obj) ==
  IF GetXPath31TagName(obj) = S_map THEN Enters(<<Loop("convertXPathMap", obj)>>)
  ELSE IF GetXPath31TagName(obj) = S_array THEN Enters(<<Loop("convertXPathArray", obj)>>)
  ELSE Enters(<<>>)

\* a value with every kind of node, four levels deep
DeepValue ==
  Map(<<K_a, K_b>>,
      <<List(<<Map(<<S_atVal, K_b>>, <<List(<<SomeTime, EmptyMap, List(<<>>)>>), Null>>), Number(1)>>),
        Map(<<S_atAttrs, K_c>>, <<Map(<<K_w>>, <<Str(K_x)>>), Map(<<K_d>>, <<Bool(TRUE)>>)>>)>>)
RunInputs ==
  Inputs
    \cup {[data |-> DeepValue, opts |-> [DefaultOptions EXCEPT !.XPathFormat = x, !.ItemFunc = f, !.IDs = ~x]] :
            x \in BOOLEAN, f \in {NilItemFunc, DefaultItemFunc}}

InitRun ==
  /\ pc = "ready"
  /\ \E inp \in RunInputs : tree = inp.data /\ options = inp.opts
  /\ xml = <<>>
  /\ calls = <<>>
  /\ nameArg = NoArg /\ nameRes = NoName
  /\ conv = New(Null) /\ ret = NoReturn
  /\ stack = <<>>
  /\ strArg = <<>> /\ NoCLI

RunFrame == UNCHANGED <<tree, options, xml, calls, nameArg, nameRes, conv, ret, Rest>>

\* the call entered e from the loops below
Proceed(below, e) ==
  /\ pc' = IF e.panic THEN "panicked" ELSE "running"
  /\ stack' = IF e.panic THEN below ELSE below \o e.frames

\* DictToXML is called: the options are filled in and the dialect chosen
RunDictToXML ==
  /\ pc = "ready"
  /\ \E e \in {IF DictToXMLOpts(options).XPathFormat
                THEN XPathEnters(tree)
                ELSE ConvertEnters(tree, DictToXMLOpts(options))} : Proceed(<<>>, e)
  /\ RunFrame

Top == stack[Len(stack)]
Advanced == [stack EXCEPT ![Len(stack)].i = @ + 1]

\* one iteration of the innermost loop
RunIterate ==
  /\ pc = "running"
  /\ stack # <<>>
  /\ Top.i <= LoopLen(Top)
  /\ \E val \in {LoopValue(Top)} :
       \E e \in {IF Top.fn \in {"convertXPathMap", "convertXPathArray"}
                  THEN XPathEnters(val)
                  ELSE ValueEnters(val, DictToXMLOpts(options))} : Proceed(Advanced, e)
  /\ RunFrame

\* the innermost loop is over and its function returns
RunLoopEnd ==
  /\ pc = "running"
  /\ stack # <<>>
  /\ Top.i > LoopLen(Top)
  /\ stack' = SubSeq(stack, 1, Len(stack) - 1)
  /\ UNCHANGED pc
  /\ RunFrame

\* DictToXML returns its bytes
RunReturn ==
  /\ pc = "running"
  /\ stack = <<>>
  /\ \E order \in RangeOrders(options.XMLNamespaces),
        xsiOrder \in XsiOrders(options.XMLNamespaces),
        rnd \in Streams(tree, options) :
       DictToXMLReturns(DictToXML(tree, options, order, xsiOrder, rnd))
  /\ pc' = "returned"
  /\ UNCHANGED <<options, nameArg, nameRes, conv, ret, stack, Rest>>

NextRun == RunDictToXML \/ RunIterate \/ RunLoopEnd \/ RunReturn

\* the step from the return statement to the caller, whatever it returns
ReturnStep == pc = "running" /\ stack = <<>> /\ pc' = "returned" /\ UNCHANGED stack

\* a step of the call: into it, through a loop, out of a loop, or back to the caller
Progress == RunDictToXML \/ RunIterate \/ RunLoopEnd \/ ReturnStep

\* The goroutine keeps running: a call that can take a step takes one, and
\* one that has reached its return statement returns.
SpecRun == InitRun /\ [][NextRun]_vars /\ WF_<<pc, stack>>(Progress)

\* C9: DictToXML never panics and every call of it returns bytes, for every
\* value tree (nil, booleans, numbers, strings, timestamps, mappings with
\* meta-keys, sequences, empty collections) and every Options, a nil
\* ItemFunc included.
C9_TotalAndTerminating ==
  /\ [](pc # "panicked")
  /\ (pc = "ready") ~> (pc = "returned" /\ Len(calls) = 1 /\ stack = <<>>)

\* the deep value has been converted under a nil ItemFunc, after its
\* loops ran to their ends
C9_Witness ==
  /\ pc = "returned"
  /\ tree # DeepValue
  /\ calls = <<[arg |-> DeepValue, opts |-> options, out |-> xml]>>
  /\ options.ItemFunc = NilItemFunc
  /\ ~options.XPathFormat
  /\ HasPrefix(xml, Prolog)
(***************************************************************************)
(* Properties of the XPath dialect, checked under Spec.                    *)
(***************************************************************************)
\* xmlns="http://www.w3.org/2005/xpath-functions", as an attribute
XmlnsAttr == <<" ">> \o S_xmlns \o <<"=", "\"">> \o XPathFunctionsNS \o <<"\"">>
\* what follows the prolog
AfterProlog(text) == SubSeq(text, Len(Prolog) + 1, Len(text))
\* the end of the tag that starts at i
TagEnd(text, i) == CHOOSE j \in i..Len(text) : text[j] = ">" /\ \A l \in i..(j - 1) : text[l] # ">"
\* the tags of text by where they start: start tags, end tags, and the
\* tags of empty elements; the prolog and the CDATA marks are no tags
TagStarts(text) ==
  {i \in 1..Len(text) : text[i] = "<" /\ ~HasAt(text, i, <<"<", "?">>) /\ ~HasAt(text, i, <<"<", "!">>)}
EndTagsOf(text) == {i \in TagStarts(text) : HasAt(text, i, <<"<", "/">>)}
EmptyTagsOf(text) == {i \in TagStarts(text) \ EndTagsOf(text) : text[TagEnd(text, i) - 1] = "/"}
OpenTagsOf(text) == (TagStarts(text) \ EndTagsOf(text)) \ EmptyTagsOf(text)
\* how many elements are open just before position i
DepthBefore(text, i) ==
  Cardinality({j \in OpenTagsOf(text) : j < i}) - Cardinality({j \in EndTagsOf(text) : j < i})
\* text is one element: it starts with a start tag, whose element stays
\* open until the last tag of text closes it
OneElement(text) ==
  /\ 1 \in OpenTagsOf(text)
  /\ text[Len(text)] = ">"
  /\ \A i \in TagStarts(text) : i > 1 => DepthBefore(text, i) >= 1
  /\ DepthBefore(text, Len(text) + 1) = 0
IsScalar(v) == v.kind \notin {"map", "list"}

\* C11: with xpathFormat on, the output is the prolog followed by exactly
\* one outermost element, a map or an array, which carries the xmlns of the
\* XPath functions exactly once and no descendant carries an xmlns; a
\* top-level map or array has the attribute spliced into its own start tag,
\* and a top-level scalar is enclosed in a synthesized map element.
C11_XPathOutermost ==
  (Returned /\ LastCall.opts.XPathFormat) =>
    /\ HasPrefix(xml, Prolog)
    /\ OneElement(AfterProlog(xml))
    /\ \/ HasPrefix(AfterProlog(xml), S_openMap \o XmlnsAttr)
       \/ HasPrefix(AfterProlog(xml), S_openArray \o XmlnsAttr)
    /\ Cardinality(Occurrences(xml, <<" ">> \o S_xmlns \o <<"=">>)) = 1
    /\ LastCall.arg.kind = "map" =>
         /\ HasPrefix(AfterProlog(xml), S_openMap \o XmlnsAttr)
         /\ ReplaceFirst(AfterProlog(xml), XmlnsAttr, <<>>) = ConvertToXPath31(LastCall.arg, <<>>)
    /\ LastCall.arg.kind = "list" =>
         /\ HasPrefix(AfterProlog(xml), S_openArray \o XmlnsAttr)
         /\ ReplaceFirst(AfterProlog(xml), XmlnsAttr, <<>>) = ConvertToXPath31(LastCall.arg, <<>>)
    /\ IsScalar(LastCall.arg) =>
         AfterProlog(xml) = Element(S_map, XmlnsAttr, ConvertToXPath31(LastCall.arg, <<>>))

\* a string at the top level and a mapping with a nested mapping have been
\* converted in the XPath dialect
C11_Witness ==
  /\ Returned
  /\ LastCall.opts.XPathFormat
  /\ \/ LastCall.arg = Str(K_text) /\ Cardinality(Occurrences(xml, S_openMap)) = 1
     \/ LastCall.arg = Map(<<K_b, K_a>>, <<Number(1), InnerMap>>)
        /\ Cardinality(Occurrences(xml, S_openMap)) = 2

\* the meta-keys
MetaKeys == {S_atAttrs, S_atVal, S_atFlat}
\* the mappings of v that have the key k
MapsWith(v, k) == {m \in MapsIn(v) : k \in KeysOf(m)}

\* C12: with xpathFormat on, the output depends on the value only: every
\* Options that sets xpathFormat, whatever its root, customRoot, ids,
\* attrType, itemWrap, item function, cdata, xmlNamespaces and listHeaders,
\* gives the bytes this call gave for the value, and each of the keys
\* @attrs, @val and @flat of a mapping is encoded literally, as the key
\* attribute of an ordinary child.
C12_XPathValueOnly ==
  (Returned /\ LastCall.opts.XPathFormat) =>
    /\ \A o \in XPathOptions : \A order \in RangeOrders(o.XMLNamespaces) :
         DictToXML(LastCall.arg, o, order, <<>>, <<>>).out = xml
    /\ \A k \in MetaKeys : MapsWith(LastCall.arg, k) # {} => Occurrences(xml, KeyAttr(k)) # {}
    /\ \A m \in MapsIn(LastCall.arg) : \A i \in 1..Len(m.keys) :
         m.keys[i] \in MetaKeys =>
           \E j \in Occurrences(xml, KeyAttr(m.keys[i])) :
            HasAt(xml, j - Len(GetXPath31TagName(m.items[i])) - 1,
                  <<"<">> \o GetXPath31TagName(m.items[i]) \o KeyAttr(m.keys[i]))

\* a mapping with the three meta-keys has been converted in the XPath
\* dialect under Options that differ from the default ones in every other
\* field
C12_Witness ==
  /\ Returned
  /\ LastCall.opts = AllOtherOptions
  /\ \A k \in MetaKeys : MapsWith(LastCall.arg, k) # {} /\ Occurrences(xml, KeyAttr(k)) # {}

(***************************************************************************)
(* Properties of the meta-keys in the default dialect, checked under Spec. *)
(***************************************************************************)
\* The value converted is {"a": m} or {"a": [m]} for a mapping m; m is
\* MetaMap, and its element is <a> in the first case and <item> in the
\* second.
UnderKey == LastCall.arg.kind = "map" /\ LastCall.arg.keys = <<K_a>> /\ LastCall.arg.items[1].kind = "map"
InList ==
  /\ LastCall.arg.kind = "map" /\ LastCall.arg.keys = <<K_a>>
  /\ LastCall.arg.items[1].kind = "list"
  /\ Len(LastCall.arg.items[1].items) = 1
  /\ LastCall.arg.items[1].items[1].kind = "map"
MetaMap == IF UnderKey THEN LastCall.arg.items[1] ELSE LastCall.arg.items[1].items[1]
MetaName == IF UnderKey THEN K_a ELSE ItemFuncApply(LastCall.opts.ItemFunc, K_a)
\* the element of MetaMap is written under its own name
OwnElement ==
  /\ Returned
  /\ ~LastCall.opts.XPathFormat
  /\ \/ UnderKey
     \/ InList /\ ~LastCall.opts.ListHeaders /\ LastCall.opts.ItemWrap
  /\ ~(MapHas(MetaMap, S_atFlat) /\ MapGet(MetaMap, S_atFlat) = Bool(TRUE))
\* the start tag of that element: the text from its < to its >
OwnTag == CHOOSE i \in StartTags(xml, MetaName) : TRUE
OwnTagText == SubSeq(xml, OwnTag, TagEnd(xml, OwnTag))
\* the content of that element: the text between its start tag and its end tag
OwnContent ==
  SubSeq(xml, TagEnd(xml, OwnTag) + 1,
         (CHOOSE j \in Occurrences(xml, <<"<", "/">> \o MetaName \o <<">">>) :
            \A l \in Occurrences(xml, <<"<", "/">> \o MetaName \o <<">">>) : l <= j) - 1)
\* the attribute k="v" as it is written for the value v
AttrText(k, v) == <<" ">> \o k \o <<"=", "\"">> \o EscapeXML(Sprintv(v)) \o <<"\"">>
\* the tag carries exactly the attributes of the mapping at, in ascending order of their keys
CarriesExactly(tag, at) ==
  /\ \A i \in 1..Len(at.keys) : Cardinality(Occurrences(tag, AttrText(at.keys[i], at.items[i]))) = 1
  /\ Cardinality(Occurrences(tag, <<"=", "\"">>)) = Len(at.keys)
  /\ \A i, j \in 1..Len(at.keys) :
       StrLess(at.keys[i], at.keys[j]) =>
         \A p \in Occurrences(tag, AttrText(at.keys[i], at.items[i])),
            q \in Occurrences(tag, AttrText(at.keys[j], at.items[j])) : p < q
HasCustomAttrs == MapHas(MetaMap, S_atAttrs) /\ MapGet(MetaMap, S_atAttrs).kind = "map"

\* C15: when a nested mapping has an @attrs entry that is a mapping and its
\* own element is written, the element carries exactly the attributes of
\* @attrs, in ascending order of their keys, and no others: the type and id
\* attributes computed for it are dropped unless @attrs has them, and @attrs
\* is not written as a child element.
C15_AttrsReplace ==
  (OwnElement /\ HasCustomAttrs) =>
    /\ Cardinality(StartTags(xml, MetaName)) = 1
    /\ CarriesExactly(OwnTagText, MapGet(MetaMap, S_atAttrs))
    /\ Occurrences(xml, S_atAttrs) = {}

\* a mapping under the key a with the two attributes w and id in @attrs and
\* a further key has been converted with ids and attrType on
C15_Witness ==
  /\ OwnElement /\ HasCustomAttrs
  /\ LastCall.opts.IDs /\ LastCall.opts.AttrType
  /\ MapGet(MetaMap, S_atAttrs) = TwoAttrs
  /\ MapHas(MetaMap, K_b)
  /\ StartTags(xml, K_b) # {}

\* what the @val value v gives as content: the escaped text of a scalar,
\* which for Null is empty, and the conversion of a mapping or a sequence
\* under the element's name
IsValContent(content, v, o, name) ==
  IF v = Null THEN content = <<>>
  ELSE IF IsScalar(v) THEN content = EscapeXML(Sprintv(v))
  ELSE \E r \in Streams(v, o) : content = Convert(v, DictToXMLOpts(o), name, r).out

\* C16: when a nested mapping has an @val entry, the content of its element
\* is the encoding of the @val value alone and none of the mapping's other
\* keys is written, and the element keeps the attributes computed for the
\* mapping, type="dict" with attrType on and the id with ids on, unless
\* @attrs replaces them.
C16_ValContent ==
  (OwnElement /\ MapHas(MetaMap, S_atVal)) =>
    /\ Cardinality(StartTags(xml, MetaName)) = 1
    /\ IsValContent(OwnContent, MapGet(MetaMap, S_atVal), LastCall.opts, MetaName)
    /\ \A k \in KeysOf(MetaMap) \ MetaKeys : StartTags(xml, k) = {}
    /\ ~HasCustomAttrs =>
         /\ LastCall.opts.AttrType <=> Occurrences(OwnTagText, AttrText(S_type, Str(S_dict))) # {}
         /\ (LastCall.opts.IDs /\ UnderKey) <=> Occurrences(OwnTagText, <<" ">> \o S_id \o <<"=">>) # {}

\* the elements of text that have no content: a start tag with its end tag
\* right behind it
EmptyElementsOf(text) ==
  {i \in OpenTagsOf(text) : HasAt(text, TagEnd(text, i) + 1, <<"<", "/">>)}
\* the value converted is a mapping with one sequence of scalars
ScalarList ==
  /\ LastCall.arg.kind = "map" /\ Len(LastCall.arg.keys) = 1
  /\ LastCall.arg.items[1].kind = "list"
  /\ Len(LastCall.arg.items[1].items) > 0
  /\ \A i \in 1..Len(LastCall.arg.items[1].items) : IsScalar(LastCall.arg.items[1].items[i])

\* C17: every Null of the input, at the top level, as a mapping value, as a
\* sequence member or as the value of @val, is rendered in the default
\* dialect with empty content, as <name attrs></name>: never as <name/>
\* and never with text between the tags.
C17_NullIsEmpty ==
  (Returned /\ ~LastCall.opts.XPathFormat) =>
    /\ LastCall.arg = Null =>
         /\ Cardinality(EmptyElementsOf(xml)) = 1
         /\ Occurrences(xml, <<"/", ">">>) = {}
    /\ \A m \in MapsIn(LastCall.arg) : \A i \in 1..Len(m.keys) :
         (m.items[i] = Null /\ m.keys[i] \notin MetaKeys /\ Cardinality(StartTags(xml, m.keys[i])) = 1)
         => StartTags(xml, m.keys[i]) \subseteq EmptyElementsOf(xml)
    /\ ScalarList =>
         /\ Cardinality(EmptyElementsOf(xml))
              = Cardinality({i \in 1..Len(LastCall.arg.items[1].items) : LastCall.arg.items[1].items[i] = Null})
         /\ Occurrences(xml, <<"/", ">">>) = {}
    /\ (OwnElement /\ MapHas(MetaMap, S_atVal) /\ MapGet(MetaMap, S_atVal) = Null) =>
         OwnContent = <<>>

\* the id attributes of text by where they start, and the value of the one at i
IdAttrs(text) == Occurrences(text, <<" ">> \o S_id \o <<"=", "\"">>)
IdValue(text, i) ==
  SubSeq(text, i + Len(S_id) + 3, IndexFrom(text, <<"\"">>, i + Len(S_id) + 3) - 1)

\* C20: with ids on, the id attributes are unique within one conversion: no
\* two elements of the output of one DictToXML call carry the same id.
C20_UniqueIds ==
  (Returned /\ LastCall.opts.IDs /\ ~LastCall.opts.XPathFormat) =>
    \A i, j \in IdAttrs(xml) : i # j => IdValue(xml, i) # IdValue(xml, j)

(***************************************************************************)
(* SpecText: EscapeXML and WrapCDATA called on a string.                   *)
(***************************************************************************)
MaxEscapeLen == 4   \* the longest generated string for EscapeXML
MaxCDATALen == 6    \* the longest generated string for WrapCDATA
\* the five special characters, a letter and the semicolon
EscapeChars == {"&", "\"", "'", "<", ">", "a", ";"}
\* the characters of the CDATA end mark and a letter
CDATAChars == {"]", ">", "a"}
\* &lt;
T_entity == <<"&", "l", "t", ";">>
\* a]]><![CDATA[b]]>
T_sections == <<"a">> \o S_cdataSplit \o <<"b">> \o S_cdataClose
Texts ==
  SeqsUpTo(EscapeChars, MaxEscapeLen) \cup SeqsUpTo(CDATAChars, MaxCDATALen)
    \cup {T_entity, S_amp, S_cdataOpen, T_sections}

InitText ==
  /\ pc = "ready"
  /\ strArg \in Texts
  /\ xml = <<>>
  /\ tree = Null /\ options = DefaultOptions /\ calls = <<>>
  /\ nameArg = NoArg /\ nameRes = NoName
  /\ conv = New(Null) /\ ret = NoReturn
  /\ stack = <<>>
  /\ NoCLI

TextFrame == UNCHANGED <<tree, options, calls, nameArg, nameRes, conv, ret, stack, strArg, flags, proc>>

CallEscapeXML ==
  /\ pc = "ready"
  /\ xml' = EscapeXML(strArg)
  /\ pc' = "escaped"
  /\ TextFrame

CallWrapCDATA ==
  /\ pc = "ready"
  /\ xml' = WrapCDATA(strArg)
  /\ pc' = "wrapped"
  /\ TextFrame

NextText == CallEscapeXML \/ CallWrapCDATA

SpecText == InitText /\ [][NextText]_vars

\* what one left-to-right pass writes for the character c
EntityOf(c) ==
  CASE c = "&" -> S_amp
    [] c = "\"" -> S_quot
    [] c = "'" -> S_apos
    [] c = "<" -> S_lt
    [] c = ">" -> S_gt
    [] OTHER -> <<c>>
OnePass(s) == Flatten([i \in 1..Len(s) |-> EntityOf(s[i])])
Entities == {S_amp, S_quot, S_apos, S_lt, S_gt}

\* C13: for every string s, EscapeXML(s) is what one left-to-right pass
\* gives that writes the entity for each of & " ' < > and copies every other
\* character: the output has no raw " ' < >, every & of the output starts
\* one of the five entities, and nothing is escaped twice: EscapeXML of
\* &lt; is &amp;lt;.
C13_EscapeOnePass ==
  pc = "escaped" =>
    /\ xml = OnePass(strArg)
    /\ \A i \in 1..Len(xml) : xml[i] \notin {"\"", "'", "<", ">"}
    /\ \A i \in 1..Len(xml) : xml[i] = "&" => \E e \in Entities : HasAt(xml, i, e)
    /\ strArg = T_entity => xml = S_amp \o <<"l", "t", ";">>

\* EscapeXML has been called on &lt;, and on a string of an ampersand, a
\* quote and the two angle brackets
C13_Witness ==
  /\ pc = "escaped"
  /\ \/ strArg = T_entity /\ xml = S_amp \o <<"l", "t", ";">>
     \/ strArg = <<"&", "\"", "<", ">">> /\ xml = S_amp \o S_quot \o S_lt \o S_gt

\* Reading t section by section from position i: each section opens with
\* the CDATA start mark and ends at the first end mark after it.  The
\* result is the concatenated contents, or NotSections when the text at i
\* is no section.
NotSections == [ok |-> FALSE, content |-> <<>>]
RECURSIVE ReadSections(_, _)
SectionAt(t, i, end) ==
  IF end = 0 THEN NotSections
  ELSE IF end + Len(S_cdataClose) > Len(t)
  THEN [ok |-> TRUE, content |-> SubSeq(t, i + Len(S_cdataOpen), end - 1)]
  ELSE [ok |-> ReadSections(t, end + Len(S_cdataClose)).ok,
        content |-> SubSeq(t, i + Len(S_cdataOpen), end - 1)
                      \o ReadSections(t, end + Len(S_cdataClose)).content]
ReadSections(t, i) ==
  IF ~HasAt(t, i, S_cdataOpen) THEN NotSections
  ELSE SectionAt(t, i, IndexFrom(t, S_cdataClose, i + Len(S_cdataOpen)))

\* C14: for every string s, WrapCDATA(s) starts with the CDATA start mark,
\* ends with the end mark, and is a concatenation of CDATA sections: read
\* section by section, each ending at the first end mark after its start
\* mark, the whole text is consumed and the contents, concatenated, are s;
\* also when s holds the end mark once or more, or overlapping runs of ].
C14_CDATASections ==
  pc = "wrapped" =>
    /\ HasPrefix(xml, S_cdataOpen)
    /\ HasSuffix(xml, S_cdataClose)
    /\ ReadSections(xml, 1) = [ok |-> TRUE, content |-> strArg]

\* WrapCDATA has been called on a string that holds the end mark twice, and
\* on one where a run of ] precedes it; the output has more sections than one
C14_Witness ==
  /\ pc = "wrapped"
  /\ strArg \in {S_cdataClose \o S_cdataClose, <<"]", "]">> \o S_cdataClose}
  /\ Cardinality(Occurrences(xml, S_cdataOpen)) >= 2

(***************************************************************************)
(* SpecCLI: one run of the command line tool, from flag.Parse on.          *)
(***************************************************************************)
\* {"a":"x"}
J_obj == <<"{", "\"", "a", "\"", ":", "\"", "x", "\"", "}">>
\* {"a":[{"b":"x"}]}
J_list == <<"{", "\"", "a", "\"", ":", "[", "{", "\"", "b", "\"", ":", "\"", "x", "\"", "}", "]", "}">>
\* {"a:b:c":[1]}
J_odd == <<"{", "\"", "a", ":", "b", ":", "c", "\"", ":", "[", "1", "]", "}">>
\* null
J_null == <<"n", "u", "l", "l">>
\* {
J_bad == <<"{">>
\* a line feed
J_blank == <<"\n">>
\* http://h/d
U_url == <<"h", "t", "t", "p", ":", "/", "/", "h", "/", "d">>
\* d.json
F_file == <<"d", ".", "j", "s", "o", "n">>
\* o.xml
F_out == <<"o", ".", "x", "m", "l">>
\* -
F_dash == <<"-">>

\* strings.TrimSpace, for ASCII text
GoSpaces == {" ", "\t", "\n", "\r"}
RECURSIVE TrimLeft(_)
TrimLeft(s) == IF s # <<>> /\ s[1] \in GoSpaces THEN TrimLeft(Tail(s)) ELSE s
RECURSIVE TrimRight(_)
TrimRight(s) == IF s # <<>> /\ s[Len(s)] \in GoSpaces THEN TrimRight(SubSeq(s, 1, Len(s) - 1)) ELSE s
TrimSpace(s) == TrimRight(TrimLeft(s))

\* json.Unmarshal into an any, on the documents above with white space
\* around them: numbers become float64, and every other text is a syntax
\* error
Unmarshal(bytes) ==
  CASE TrimSpace(bytes) = J_obj -> [data |-> Map(<<K_a>>, <<Str(K_x)>>), err |-> "nil"]
    [] TrimSpace(bytes) = J_list ->
         [data |-> Map(<<K_a>>, <<List(<<Map(<<K_b>>, <<Str(K_x)>>)>>)>>), err |-> "nil"]
    [] TrimSpace(bytes) = J_odd -> [data |-> Map(<<K_abc>>, <<List(<<Float(<<"1">>)>>)>>), err |-> "nil"]
    [] TrimSpace(bytes) = J_null -> [data |-> Null, err |-> "nil"]
    [] OTHER -> [data |-> Null, err |-> "SyntaxError"]

\* What a file, a URL or standard input delivers: a read error, or bytes.
ReadFails == <<"?">>
Contents == {ReadFails, J_obj, J_obj \o J_blank, J_list, J_odd, J_null, J_bad, J_blank}

\* ReadFromString, ReadFromJSON and ReadFromURL; the last two given what
\* the file and the server deliver
ReadFromString(jsonData) ==
  IF jsonData = <<>> THEN [data |-> Null, err |-> "ErrStringRead"]
  ELSE IF Unmarshal(jsonData).err # "nil" THEN [data |-> Null, err |-> "ErrStringRead"]
  ELSE Unmarshal(jsonData)
ReadFromJSON(delivered) ==
  IF delivered = ReadFails \/ Unmarshal(delivered).err # "nil" THEN [data |-> Null, err |-> "ErrJSONRead"]
  ELSE Unmarshal(delivered)
ReadFromURL(delivered) ==
  IF delivered = ReadFails \/ Unmarshal(delivered).err # "nil" THEN [data |-> Null, err |-> "ErrURLRead"]
  ELSE Unmarshal(delivered)
\* readFromStdin of main.go
readFromStdin(delivered) ==
  IF delivered = ReadFails THEN [data |-> Null, err |-> "failed to read from stdin"]
  ELSE IF TrimSpace(delivered) = <<>> THEN [data |-> Null, err |-> "empty input"]
  ELSE ReadFromString(TrimSpace(delivered))

\* a readInput that looks at the string before the URL
readInputSourceStringFirst(f, stat) ==
  IF f.inputString # <<>> THEN "string"
  ELSE IF f.inputURL # <<>> THEN "url"
  ELSE IF Len(f.args) > 0 THEN (IF f.args[1] = F_dash THEN "stdin" ELSE "file")
  ELSE IF stat = "error" THEN "panic"
  ELSE IF stat = "pipe" THEN "stdin"
  ELSE "none"
\* readInput: the source its chain of tests comes to.  stat is what
\* os.Stdin.Stat() gives: a pipe or a file, a terminal, or an error, and
\* then the nil FileInfo is dereferenced.
readInputSource(f, stat) ==
  IF f.inputURL # <<>> THEN "url"
  ELSE IF f.inputString # <<>> THEN "string"
  ELSE IF Len(f.args) > 0 THEN (IF f.args[1] = F_dash THEN "stdin" ELSE "file")
  ELSE IF stat = "error" THEN "panic"
  ELSE IF stat = "pipe" THEN "stdin"
  ELSE "none"

\* the converter main builds
mainConverter(f, data) ==
  WithXPathFormat(WithItemWrap(WithAttrType(WithPretty(WithRoot(WithWrapper(New(data), f.wrapper),
    f.root), f.pretty), f.attrType), f.itemWrap), f.xpathFormat)
\* ToXML calls DictToXML on j's data
ReachesDictToXML(j) ==
  ~(\/ j.data = Null
    \/ (j.data.kind = "map" /\ Len(j.data.keys) = 0)
    \/ (j.data.kind = "list" /\ Len(j.data.items) = 0))

CommandLines ==
  {[DefaultFlags EXCEPT !.inputURL = u, !.inputString = s, !.args = a, !.outputFile = o,
                        !.pretty = p, !.cdata = c, !.listHeaders = l,
                        !.showHelp = (hv = "help"), !.showVersion = (hv = "version")] :
     u \in {<<>>, U_url}, s \in {<<>>, J_obj, J_list, J_bad}, a \in {<<>>, <<F_dash>>, <<F_file>>},
     o \in {<<>>, F_out}, p \in BOOLEAN, c \in BOOLEAN, l \in BOOLEAN, hv \in {"no", "help", "version"}}

InitCLI ==
  /\ pc = "ready"
  /\ flags \in CommandLines
  /\ \E st \in {"pipe", "terminal", "error"} : proc = [NoProc EXCEPT !.at = "main", !.stat = st]
  /\ tree = Null /\ options = DefaultOptions /\ xml = <<>> /\ calls = <<>>
  /\ nameArg = NoArg /\ nameRes = NoName
  /\ conv = New(Null) /\ ret = NoReturn
  /\ stack = <<>>
  /\ strArg = <<>>

CLIFrame == UNCHANGED <<pc, tree, options, xml, nameArg, nameRes, stack, strArg, flags>>
\* os.Exit(code) after msg went to standard error
ExitWith(msg, code) ==
  proc' = [proc EXCEPT !.at = "exited", !.stderr = Append(@, msg), !.exit = code]

ShowHelp ==
  /\ proc.at = "main"
  /\ flags.showHelp
  /\ ExitWith("usage", 0)
  /\ UNCHANGED <<calls, conv, ret>> /\ CLIFrame

ShowVersion ==
  /\ proc.at = "main"
  /\ ~flags.showHelp /\ flags.showVersion
  /\ proc' = [proc EXCEPT !.at = "exited", !.stdout = Append(@, "version"), !.exit = 0]
  /\ UNCHANGED <<calls, conv, ret>> /\ CLIFrame

\* main from its call of readInput to its test of the error: source has
\* been read and gave r
ReadInputReturns(source, r) ==
  /\ proc' = IF r.err # "nil"
             THEN [proc EXCEPT !.reads = Append(@, [source |-> source, err |-> r.err]),
                               !.at = "exited", !.stderr = Append(@, "Error reading input"), !.exit = 1]
             ELSE [proc EXCEPT !.reads = Append(@, [source |-> source, err |-> r.err]),
                               !.at = "read", !.data = r.data]
  /\ UNCHANGED <<calls, conv, ret>> /\ CLIFrame
Reading(source) ==
  /\ proc.at = "main"
  /\ ~flags.showHelp /\ ~flags.showVersion
  /\ readInputSource(flags, proc.stat) = source

ReadURL == Reading("url") /\ \E d \in Contents : ReadInputReturns("url", ReadFromURL(d))
ReadString == Reading("string") /\ ReadInputReturns("string", ReadFromString(flags.inputString))
ReadFile == Reading("file") /\ \E d \in Contents : ReadInputReturns("file", ReadFromJSON(d))
ReadStdin == Reading("stdin") /\ \E d \in Contents : ReadInputReturns("stdin", readFromStdin(d))
NoInput ==
  /\ Reading("none")
  /\ ExitWith("Error reading input", 1)
  /\ UNCHANGED <<calls, conv, ret>> /\ CLIFrame
\* stat.Mode() on the nil FileInfo: the runtime prints the panic and exits with 2
StatPanics ==
  /\ Reading("panic")
  /\ ExitWith("panic", 2)
  /\ UNCHANGED <<calls, conv, ret>> /\ CLIFrame

\* main from json2xml.New to its test of ToXMLString's error: r is what
\* ToXMLString returned for the converter j
ConvertReturns(j, r) ==
  /\ conv' = [j EXCEPT !.data = r.data]
  /\ ret' = [fn |-> "ToXMLString", val |-> r.ret.val, err |-> r.ret.err]
  /\ calls' = IF ReachesDictToXML(j)
              THEN Append(calls, [arg |-> j.data, opts |-> ToXMLOptions(j),
                                  out |-> DictToXML(j.data, ToXMLOptions(j), <<>>, <<>>, <<>>).out])
              ELSE calls
  /\ proc' = IF r.ret.err # "nil"
             THEN [proc EXCEPT !.at = "exited", !.stderr = Append(@, "Error converting to XML"), !.exit = 1]
             ELSE [proc EXCEPT !.at = "converted", !.output = r.ret.val]
  /\ CLIFrame
MainConvert ==
  /\ proc.at = "read"
  /\ \E j \in {mainConverter(flags, proc.data)} : ConvertReturns(j, ToXMLString(j))

\* main's call of writeOutput and its return; os.WriteFile works or fails
MainWrite ==
  /\ proc.at = "converted"
  /\ IF flags.outputFile # <<>>
     THEN \E ok \in BOOLEAN :
            proc' = IF ok THEN [proc EXCEPT !.at = "exited", !.file = <<proc.output>>, !.exit = 0]
                    ELSE [proc EXCEPT !.at = "exited", !.stderr = Append(@, "Error writing output"), !.exit = 1]
     ELSE proc' = [proc EXCEPT !.at = "exited", !.stdout = Append(@, proc.output), !.exit = 0]
  /\ UNCHANGED <<calls, conv, ret>> /\ CLIFrame

NextCLI ==
  \/ ShowHelp \/ ShowVersion
  \/ ReadURL \/ ReadString \/ ReadFile \/ ReadStdin \/ NoInput \/ StatPanics
  \/ MainConvert \/ MainWrite

SpecCLI == InitCLI /\ [][NextCLI]_vars

\* C18: the conversion flags reach the conversion: the Options handed to
\* DictToXML have CDATA and ListHeaders equal to the parsed values of
\* -c/--cdata and -l/--list-headers.
C18_FlagsReachConversion ==
  \A i \in 1..Len(calls) :
    /\ calls[i].opts.CDATA = flags.cdata
    /\ calls[i].opts.ListHeaders = flags.listHeaders

\* The input sources a command line gives, by priority: 1 the URL, 2 the
\* string, 3 the file argument, 4 piped standard input.
GivenPriorities ==
  {p \in 1..4 : \/ p = 1 /\ flags.inputURL # <<>>
                \/ p = 2 /\ flags.inputString # <<>>
                \/ p = 3 /\ Len(flags.args) > 0
                \/ p = 4 /\ proc.stat = "pipe"}
SourceGiven == GivenPriorities # {}
ChosenPriority == CHOOSE p \in GivenPriorities : \A q \in GivenPriorities : p <= q
\* the source of that priority; the file argument - is standard input
ChosenSource ==
  CASE ChosenPriority = 1 -> "url"
    [] ChosenPriority = 2 -> "string"
    [] ChosenPriority = 3 -> IF flags.args[1] = F_dash THEN "stdin" ELSE "file"
    [] ChosenPriority = 4 -> "stdin"
\* the run converts: neither -h nor -v is given
Converting == ~flags.showHelp /\ ~flags.showVersion
ReadFailed == \E i \in 1..Len(proc.reads) : proc.reads[i].err # "nil"
ConversionFailed == ret.err # "nil"
NothingWritten == proc.stdout = <<>> /\ proc.file = <<>>

\* C19: a converting run that is given an input source reads exactly one,
\* the one of the highest priority among URL, string, file argument (- is
\* standard input) and piped standard input, and never one of a lower
\* priority; once the read or the conversion has failed, the error is on
\* standard error, the process has exited with a non-zero code, nothing has
\* been written, and no other source is read afterwards.
C19_OneSourceByPriority ==
  /\ [](/\ Len(proc.reads) <= 1
        /\ \A i \in 1..Len(proc.reads) : SourceGiven /\ proc.reads[i].source = ChosenSource
        /\ (Converting /\ SourceGiven /\ proc.at \in {"read", "converted", "exited"}) => Len(proc.reads) = 1
        /\ (ReadFailed \/ ConversionFailed) =>
             /\ proc.at = "exited"
             /\ proc.exit > 0
             /\ proc.stderr # <<>>
             /\ NothingWritten)
  /\ [][proc.at = "exited" => proc' = proc]_vars
  /\ [][proc.reads # <<>> => proc'.reads = proc.reads]_vars

\* a run given a string that is no JSON, a file argument and piped standard
\* input has read the string only and has exited with 1; a run whose
\* conversion failed has exited with 1
C19_Witness ==
  /\ proc.at = "exited" /\ proc.exit = 1 /\ NothingWritten
  /\ \/ /\ flags.inputURL = <<>> /\ flags.inputString = J_bad /\ flags.args = <<F_file>>
        /\ proc.stat = "pipe"
        /\ proc.reads = <<[source |-> "string", err |-> "ErrStringRead"]>>
     \/ /\ ConversionFailed /\ ~ReadFailed /\ Len(proc.reads) = 1
(***************************************************************************)
(* PrettyPrint and the error of ToXML.                                     *)
(***************************************************************************)
\* a name of the texts: a letter, then letters and digits
IsName(n) == n # <<>> /\ n[1] \in Letters /\ \A i \in 1..Len(n) : n[i] \in Letters \cup Digits

\* The text from position i on is well-formed content (elements properly
\* nested and closed, legal names, every & an entity reference) inside the
\* open elements stk.
RECURSIVE contentFrom(_, _, _)
contentFrom(s, i, stk) ==
  IF i > Len(s) THEN stk = <<>>
  ELSE IF s[i] = "&"
  THEN \E e \in Entities : HasAt(s, i, e) /\ contentFrom(s, i + Len(e), stk)
  ELSE IF s[i] # "<" THEN contentFrom(s, i + 1, stk)
  ELSE LET c == IndexFrom(s, <<">">>, i)
           b == SubSeq(s, i + 1, c - 1)
       IN  /\ c # 0 /\ b # <<>>
           /\ IF b[1] = "/"
              THEN /\ stk # <<>> /\ stk[Len(stk)] = Tail(b)
                   /\ contentFrom(s, c + 1, SubSeq(stk, 1, Len(stk) - 1))
              ELSE IF b[Len(b)] = "/"
              THEN IsName(SubSeq(b, 1, Len(b) - 1)) /\ contentFrom(s, c + 1, stk)
              ELSE IsName(b) /\ contentFrom(s, c + 1, Append(stk, b))
WellFormed(s) == contentFrom(s, 1, <<>>)

\* the bytes DictToXML hands to PrettyPrint inside ToXML(conv)
RawXML == DictToXML(conv.data, ToXMLOptions(conv), <<>>, <<>>, <<>>).out

C21_WitnessToXML ==
  /\ pc = "returned" /\ ret.fn = "ToXML" /\ conv.pretty
  /\ ret.val = NilValue /\ ret.err = "ErrInvalidData"
(***************************************************************************)
(* SpecStr: the exported Dict2XMLStr and List2XMLStr called on their own,  *)
(* as the tests call them.                                                 *)
(***************************************************************************)
StrOptions ==
  {[DefaultOptions EXCEPT !.AttrType = t, !.ItemWrap = w, !.ListHeaders = h] :
     t \in BOOLEAN, w \in BOOLEAN, h \in BOOLEAN}
\* nil, an empty map and a map of one attribute
StrAttrs == {Null, EmptyMap, Map(<<S_id>>, <<Str(K_x)>>)}
StrNames == {K_a, K_aFlat}
StrMaps == MetaMaps \cup {Map(<<S_atVal>>, <<SomeTime>>), Map(<<S_atVal>>, <<Str(FormatRFC3339(SomeTime))>>)}
StrLists ==
  {List(<<>>), List(<<Number(1)>>), List(<<Str(K_x), Number(1)>>), List(<<Null>>),
   List(<<Map(<<K_b>>, <<Number(1)>>)>>), List(<<Map(<<K_b>>, <<Number(1)>>), Str(K_x)>>),
   List(<<Str(K_x), Map(<<K_b>>, <<Number(1)>>)>>), List(<<List(<<Number(1)>>)>>),
   List(<<SomeTime>>), List(<<Str(FormatRFC3339(SomeTime))>>)}

\* the calls made: the function and its arguments
StrCalls ==
  {[fn |-> "Dict2XMLStr", opts |-> o, attrs |-> a, data |-> item, itemName |-> n,
    parentIsList |-> l, parent |-> K_p] :
     o \in StrOptions, a \in StrAttrs, item \in StrMaps, n \in StrNames, l \in BOOLEAN}
  \cup
  {[fn |-> "List2XMLStr", opts |-> o, attrs |-> a, data |-> items, itemName |-> n,
    parentIsList |-> FALSE, parent |-> <<>>] :
     o \in StrOptions, a \in StrAttrs, items \in StrLists, n \in StrNames}

InitStr ==
  /\ pc = "ready"
  /\ \E c \in StrCalls : calls = <<c>>
  /\ tree = Null /\ options = DefaultOptions /\ xml = <<>>
  /\ nameArg = NoArg /\ nameRes = NoName
  /\ conv = New(Null) /\ ret = NoReturn
  /\ stack = <<>>
  /\ strArg = <<>> /\ NoCLI

StrFrame == UNCHANGED <<calls, options, nameArg, nameRes, conv, ret, stack, Rest>>

\* the call returns r: its string, and the value as the call leaves it
StrReturns(r) == xml' = r.out /\ tree' = r.obj /\ pc' = "returned"
StrPanics == pc' = "panicked" /\ UNCHANGED <<xml, tree>>

CallDict2XMLStr ==
  /\ pc = "ready" /\ LastCall.fn = "Dict2XMLStr"
  /\ IF NilMapAssignment(LastCall.opts, LastCall.attrs) THEN StrPanics
     ELSE StrReturns(Dict2XMLStr(LastCall.opts, LastCall.attrs, LastCall.data, LastCall.itemName,
                                 LastCall.parentIsList, LastCall.parent, <<>>))
  /\ StrFrame

CallList2XMLStr ==
  /\ pc = "ready" /\ LastCall.fn = "List2XMLStr"
  /\ IF NilMapAssignment(LastCall.opts, LastCall.attrs) THEN StrPanics
     ELSE StrReturns(List2XMLStr(LastCall.opts, LastCall.attrs, LastCall.data, LastCall.itemName, <<>>))
  /\ StrFrame

NextStr == CallDict2XMLStr \/ CallList2XMLStr

SpecStr == InitStr /\ [][NextStr]_vars

\* the call made, once it has returned or panicked
Called(fn) == pc \in {"returned", "panicked"} /\ LastCall.fn = fn
\* <name attrs>content</name>
Wrapped(name, attrs, content) ==
  <<"<">> \o name \o attrs \o <<">">> \o content \o <<"<", "/">> \o name \o <<">">>
\* the attributes handed in, with the type attribute when attrType is on
TypedAttrs(c, type) == IF c.opts.AttrType THEN MapSet(c.attrs, S_type, Str(type)) ELSE c.attrs

\* C22: Dict2XMLStr picks the shape by strict priority: (a) parent a list and
\* listHeaders on: the content inside the parent's tag name, with the
\* attributes only when there are some and itemWrap is off, even when @flat
\* is true; (b) otherwise @flat true, or parent a list and itemWrap off: the
\* bare content; (c) otherwise <itemName attrs>content</itemName>.
C22_ShapeByPriority ==
  (Returned /\ LastCall.fn = "Dict2XMLStr") =>
    LET c == LastCall
        x == extractSpecialAttrs(c.data, TypedAttrs(c, S_dict))
        content == buildSubtree(x.rawItem, c.opts, c.itemName, <<>>).out
        attrs == MakeAttrString(x.attrs)
        flat == MapHas(c.data, S_atFlat) /\ MapGet(c.data, S_atFlat) = Bool(TRUE)
    IN  IF c.parentIsList /\ c.opts.ListHeaders
        THEN xml = Wrapped(c.parent, IF attrs # <<>> /\ ~c.opts.ItemWrap THEN attrs ELSE <<>>, content)
        ELSE IF flat \/ (c.parentIsList /\ ~c.opts.ItemWrap)
        THEN xml = content
        ELSE xml = Wrapped(c.itemName, attrs, content)

\* a mapping with @flat true, member of a list, under listHeaders: its
\* content stands inside <p>
C22_Witness ==
  /\ Returned /\ LastCall.fn = "Dict2XMLStr"
  /\ LastCall.parentIsList /\ LastCall.opts.ListHeaders
  /\ MapHas(LastCall.data, S_atFlat) /\ MapGet(LastCall.data, S_atFlat) = Bool(TRUE)
  /\ HasPrefix(xml, <<"<", "p">>)

\* C23: List2XMLStr emits the bare content exactly when the name ends with
\* @flat, or the sequence is not empty and its first item is a primitive and
\* itemWrap is off, or listHeaders is on; in every other case, an empty
\* sequence with listHeaders off and no @flat among them, it emits
\* <name attrs>content</name> with the @flat suffix off the name and
\* type="list" among the attributes when attrType is on.
C23_ListWrapper ==
  (Returned /\ LastCall.fn = "List2XMLStr") =>
    LET c == LastCall
        name == TrimSuffix(c.itemName, S_atFlat)
        content == ConvertList(c.data, c.opts, name, <<>>).out
        bare == \/ HasSuffix(c.itemName, S_atFlat)
                \/ (c.data.items # <<>> /\ IsPrimitiveType(c.data.items[1]) /\ ~c.opts.ItemWrap)
                \/ c.opts.ListHeaders
    IN  /\ xml = IF bare THEN content ELSE Wrapped(name, MakeAttrString(TypedAttrs(c, S_list)), content)
        /\ (~bare /\ c.opts.AttrType) =>
             HasPrefix(xml, <<"<">> \o name \o <<" ">>) /\ Occurrences(xml, S_type \o <<"=", "\"">> \o S_list \o <<"\"">>) # {}

\* the empty sequence with itemWrap off, listHeaders off and no @flat is wrapped
C23_Witness ==
  /\ Returned /\ LastCall.fn = "List2XMLStr"
  /\ LastCall.data.items = <<>> /\ ~LastCall.opts.ItemWrap /\ ~LastCall.opts.ListHeaders
  /\ LastCall.itemName = K_a
  /\ HasPrefix(xml, <<"<", "a">>)

\* C30: Dict2XMLStr and List2XMLStr accept a nil attribute map under every
\* Options, attrType on or off: the call returns, without a panic, what the
\* same call with an empty attribute map returns.
C30_NilAttrsAccepted ==
  ((Called("Dict2XMLStr") \/ Called("List2XMLStr")) /\ LastCall.attrs = Null) =>
    /\ pc = "returned"
    /\ xml = IF LastCall.fn = "Dict2XMLStr"
             THEN Dict2XMLStr(LastCall.opts, EmptyMap, LastCall.data, LastCall.itemName,
                              LastCall.parentIsList, LastCall.parent, <<>>).out
             ELSE List2XMLStr(LastCall.opts, EmptyMap, LastCall.data, LastCall.itemName, <<>>).out
(***************************************************************************)
(* Timestamps.                                                             *)
(***************************************************************************)
\* the value tree with the String of its RFC 3339 text for every Timestamp
RECURSIVE AsStrings(_)
AsStrings(v) ==
  CASE v.kind = "time" -> Str(FormatRFC3339(v))
    [] v.kind \in {"map", "list"} -> [v EXCEPT !.items = [i \in 1..Len(v.items) |-> AsStrings(v.items[i])]]
    [] OTHER -> v
RECURSIVE HasTime(_)
HasTime(v) ==
  \/ v.kind = "time"
  \/ (v.kind \in {"map", "list"} /\ \E i \in 1..Len(v.items) : HasTime(v.items[i]))
\* the call had no ids to draw and no namespaces to range over
Deterministic(c) == ~c.opts.IDs /\ c.opts.XMLNamespaces = Null

\* C24: a Timestamp at any position of the value tree (top level, mapping
\* value, member of a sequence under either itemWrap, value of @val) gives
\* the output that the String of its RFC 3339 text gives there: the same
\* element name, the same type attribute str and the same content.
C24_TimestampAsString ==
  (Returned /\ ~LastCall.opts.XPathFormat /\ Deterministic(LastCall)) =>
    xml = DictToXML(AsStrings(LastCall.arg), LastCall.opts, <<>>, <<>>, <<>>).out
(***************************************************************************)
(* Namespace attributes of the root element.                               *)
(***************************************************************************)
\* name="v" after a space
NsAttr(name, v) == <<" ">> \o name \o <<"=", "\"">> \o v \o <<"\"">>
\* the attributes the mapping of namespaces stands for
XsiAttrs(m) ==
  IF m.kind # "map" THEN {}
  ELSE {NsAttr(S_xmlns \o <<":">> \o S_xsi, MapGet(m, k).s) : k \in KeysOf(m) \cap {S_schemaInstance}}
       \cup {NsAttr(S_xsi \o <<":">> \o S_schemaLocation, MapGet(m, k).s) : k \in KeysOf(m) \cap {S_schemaLocation}}
NamespaceAttrs(ns) ==
  IF ns = Null THEN {}
  ELSE UNION {IF k = S_xsi THEN XsiAttrs(MapGet(ns, k))
              ELSE IF k = S_xmlns THEN {NsAttr(S_xmlns, MapGet(ns, k).s)}
              ELSE {NsAttr(S_xmlns \o <<":">> \o k, MapGet(ns, k).s)} : k \in KeysOf(ns)}
\* the start tag of the root element: the text after the prolog up to the first >
RootStartTag == SubSeq(xml, Len(Prolog) + 1, TagEnd(xml, Len(Prolog) + 1))

\* C25: in the default dialect with root on, the root start tag carries
\* exactly the namespace attributes of the mapping, in some order, and no
\* others: xmlns="v" for the prefix xmlns; for xsi with a mapping value
\* xmlns:xsi="v" for schemaInstance and xsi:schemaLocation="v" for
\* schemaLocation, nothing for other nested keys or for an xsi that is no
\* mapping; xmlns:p="v" for every other prefix p.  With root off no
\* namespace attribute appears in the output.
C25_NamespaceAttributes ==
  (Returned /\ ~LastCall.opts.XPathFormat) =>
    IF LastCall.opts.Root
    THEN LET want == NamespaceAttrs(LastCall.opts.XMLNamespaces)
         IN  \E p \in Perms(want, Cardinality(want)) :
               RootStartTag = <<"<">> \o LastCall.opts.CustomRoot \o Flatten(p) \o <<">">>
    ELSE Occurrences(xml, S_xmlns) = {} /\ Occurrences(xml, S_xsi \o <<":">>) = {}

\* the root element carries the location of the schema and the prefix p,
\* and nothing for the nested key k
C25_Witness ==
  /\ Returned /\ LastCall.opts.Root /\ ~LastCall.opts.XPathFormat
  /\ LastCall.opts.XMLNamespaces # Null
  /\ MapHas(LastCall.opts.XMLNamespaces, K_p) /\ MapHas(LastCall.opts.XMLNamespaces, S_xsi)
  /\ Occurrences(RootStartTag, NsAttr(S_xsi \o <<":">> \o S_schemaLocation, K_uri)) # {}
  /\ Occurrences(RootStartTag, NsAttr(S_xmlns \o <<":">> \o K_p, K_uri2)) # {}
(***************************************************************************)
(* Keys that cannot be made names.                                         *)
(***************************************************************************)
\* what an XML parser reads from the attribute value s: every reference to
\* one of the five entities is the character it stands for
RECURSIVE Unescape(_)
Unescape(s) ==
  IF s = <<>> THEN <<>>
  ELSE IF HasPrefix(s, S_amp) THEN <<"&">> \o Unescape(SubSeq(s, Len(S_amp) + 1, Len(s)))
  ELSE IF HasPrefix(s, S_lt) THEN <<"<">> \o Unescape(SubSeq(s, Len(S_lt) + 1, Len(s)))
  ELSE IF HasPrefix(s, S_gt) THEN <<">">> \o Unescape(SubSeq(s, Len(S_gt) + 1, Len(s)))
  ELSE IF HasPrefix(s, S_quot) THEN <<"\"">> \o Unescape(SubSeq(s, Len(S_quot) + 1, Len(s)))
  ELSE IF HasPrefix(s, S_apos) THEN <<"'">> \o Unescape(SubSeq(s, Len(S_apos) + 1, Len(s)))
  ELSE <<s[1]>> \o Unescape(Tail(s))
\*  name="
NameAttrOpen == <<" ">> \o S_name \o <<"=", "\"">>
\* the values of the name attributes of text, as written
NameAttrValues(text) ==
  {SubSeq(text, i + Len(NameAttrOpen),
          (CHOOSE j \in (i + Len(NameAttrOpen))..Len(text) :
             text[j] = "\"" /\ \A l \in (i + Len(NameAttrOpen))..(j - 1) : text[l] # "\"") - 1) :
     i \in Occurrences(text, NameAttrOpen)}
\* the keys of the top-level mapping for which MakeValidXMLName falls back to key
FallbackKeys(v) ==
  IF v.kind # "map" THEN {}
  ELSE {k \in KeysOf(v) : LET nm == MakeValidXMLName(k, EmptyMap)
                          IN  nm.name = S_key /\ MapHas(nm.attrs, S_name)}

\* C26: a mapping key that cannot be made a legal name gives the element
\* key with a name attribute through which the key survives: the decoded
\* value of the rendered name attribute is the original key, also for keys
\* that contain & < > or quotes.
C26_KeySurvives ==
  (Returned /\ ~LastCall.opts.XPathFormat) =>
    \A k \in FallbackKeys(LastCall.arg) :
      /\ Occurrences(xml, <<"<">> \o S_key \o NameAttrOpen) # {}
      /\ \E v \in NameAttrValues(xml) : Unescape(v) = k
(***************************************************************************)
(* SpecID: MakeID and GetUniqueID called on their own.                     *)
(***************************************************************************)
\* the bounds handed to MakeID: 0, small numbers and the numbers around the
\* two defaults
IdBounds == {0, 1, 5, 99999, 100000, 100001, 999999, 1000000}
IdElements == {K_a, S_item, <<>>}
\* what the generator yields before rand.Intn reduces it to [0, n)
IdDraws == {0, 7, 99999, 899999, 999998}
IdCalls ==
  {[fn |-> "MakeID", element |-> e, start |-> b[1], end |-> b[2]] :
     e \in IdElements, b \in {p \in IdBounds \X IdBounds : p[1] <= p[2]}}
  \cup {[fn |-> "GetUniqueID", element |-> e, start |-> 0, end |-> 0] : e \in IdElements}

InitID ==
  /\ pc = "ready"
  /\ \E c \in IdCalls : calls = <<c>>
  /\ tree = Null /\ options = DefaultOptions /\ xml = <<>>
  /\ nameArg = NoArg /\ nameRes = NoName
  /\ conv = New(Null) /\ ret = NoReturn
  /\ stack = <<>>
  /\ strArg = <<>> /\ NoCLI

\* the call returns the id r.id, or panics inside rand.Intn
IdReturns(r) ==
  /\ IF r.ok THEN pc' = "returned" /\ xml' = r.id ELSE pc' = "panicked" /\ UNCHANGED xml
  /\ UNCHANGED <<calls, tree, options, nameArg, nameRes, conv, ret, stack, Rest>>

CallMakeID ==
  /\ pc = "ready" /\ LastCall.fn = "MakeID"
  /\ \E d \in IdDraws : IdReturns(MakeID(LastCall.element, LastCall.start, LastCall.end, <<d>>))

CallGetUniqueID ==
  /\ pc = "ready" /\ LastCall.fn = "GetUniqueID"
  /\ \E d \in IdDraws : IdReturns(GetUniqueID(LastCall.element, <<d>>))

NextID == CallMakeID \/ CallGetUniqueID

SpecID == InitID /\ [][NextID]_vars

\* the number the decimal digits s write
RECURSIVE Atoi(_)
Atoi(s) ==
  IF s = <<>> THEN 0
  ELSE 10 * Atoi(SubSeq(s, 1, Len(s) - 1)) + (CHOOSE d \in 0..9 : DigitSeq[d + 1] = s[Len(s)])

\* the bounds of the number drawn by the call made
IdLo == IF LastCall.fn = "GetUniqueID" \/ LastCall.start = 0 THEN 100000 ELSE LastCall.start
IdHi == IF LastCall.fn = "GetUniqueID" \/ LastCall.end = 0 THEN 999999 ELSE LastCall.end
\* the text after element_
IdDigits == SubSeq(xml, Len(LastCall.element) + 2, Len(xml))
\* the call has returned element_n with lo <= n <= hi
IdReturnedInRange ==
  /\ pc = "returned"
  /\ HasPrefix(xml, LastCall.element \o <<"_">>)
  /\ IdDigits # <<>> /\ \A i \in 1..Len(IdDigits) : IdDigits[i] \in Digits
  /\ IdLo <= Atoi(IdDigits) /\ Atoi(IdDigits) <= IdHi

OptionFields == {"wrapper", "root", "pretty", "attrType", "itemWrap", "xpathFormat"}
\* the argument of the latest call of a setter, or the default d
LatestOr(args, d) == IF args = <<>> THEN d ELSE args[1]
\* the field each setter sets
FieldOf ==
  [WithWrapper |-> "wrapper", WithRoot |-> "root", WithPretty |-> "pretty", WithAttrType |-> "attrType",
   WithItemWrap |-> "itemWrap", WithXPathFormat |-> "xpathFormat"]
\* the step is a call of an entry point that returns
EntryPointReturns == pc = "ready" /\ pc' = "returned"

\* C28: after any sequence of With calls on a converter made by New(data),
\* each option is the argument of the latest call of its own setter, or its
\* default (wrapper all; root, pretty, attrType, itemWrap true; xpathFormat
\* false) if the setter was never called; each setter changes its own field
\* only and never the data; ToXML, ToXMLString and ToXMLBytes change no
\* option field.
C28_OptionsFollowSetters ==
  /\ [](/\ conv.wrapper = LatestOr(calls.WithWrapper, S_all)
        /\ conv.root = LatestOr(calls.WithRoot, TRUE)
        /\ conv.pretty = LatestOr(calls.WithPretty, TRUE)
        /\ conv.attrType = LatestOr(calls.WithAttrType, TRUE)
        /\ conv.itemWrap = LatestOr(calls.WithItemWrap, TRUE)
        /\ conv.xpathFormat = LatestOr(calls.WithXPathFormat, FALSE))
  /\ [][/\ \A n \in DOMAIN FieldOf : calls'[n] = calls[n] => conv'[FieldOf[n]] = conv[FieldOf[n]]
        /\ ~EntryPointReturns => conv'.data = conv.data
        /\ EntryPointReturns => (calls' = calls /\ \A f \in OptionFields : conv'[f] = conv[f])]_vars

\* WithPretty(false) and WithWrapper(w) were called, WithRoot never, and
\* ToXML has returned
C28_Witness ==
  /\ pc = "returned" /\ ret.fn = "ToXML"
  /\ calls.WithPretty = <<FALSE>> /\ calls.WithWrapper = <<K_w>> /\ calls.WithRoot = <<>>
  /\ ~conv.pretty /\ conv.wrapper = K_w /\ conv.root
(***************************************************************************)
(* The second sanitization of a name.                                      *)
(***************************************************************************)
\* C29: MakeValidXMLName is idempotent: if (n, a) is what it returns for a
\* key and an attribute map, it returns (n, a) for n and a; so the second
\* sanitization that ConvertKV, ConvertBool and ConvertNone apply to a name
\* sanitized by ConvertDict changes neither the name nor the attributes.
C29_Idempotent ==
  Returned => MakeValidXMLName(nameRes.name, nameRes.attrs) = nameRes

\* the key <a has become key with a name attribute, and stays so
C29_Witness ==
  /\ Returned /\ nameArg.key = K_ltA
  /\ nameRes.name = S_key /\ MapHas(nameRes.attrs, S_name)
  /\ MakeValidXMLName(nameRes.name, nameRes.attrs) = nameRes
====
